---- MODULE Spec2Model ----
(***************************************************************************)
(* Model of the Airtable-connected form builder: the conditional logic     *)
(* engine (services/conditionalLogic.js), the form and response            *)
(* controllers, the outbound push (services/airtableService.js) and the    *)
(* webhook synchronisation engine (services/webhookSyncService.js).        *)
(***************************************************************************)
EXTENDS Integers, Sequences, FiniteSets, TLC

(***************************************************************************)
(* Bounds of the model.                                                    *)
(***************************************************************************)
\* Responses the local store may hold (outbound and retry specifications).
MaxResponses == 2
\* Records the external table may hold in the outbound specification.
MaxExt == 2
\* Submissions accepted in the submission specification.
MaxSubmissions == 2
\* Cap of the syncStatus.syncAttempts counter in the inbound specifications.
MaxAttempts == 4
\* Cap of the syncStatus.syncAttempts counter in the retry specification.
MaxPushAttempts == 3
\* Records of the external table the inbound webhooks may mention.
MaxRecordIds == 1
\* Largest limit handed to retryFailedSyncs.
MaxLimit == 2
\* Forms the form store may hold (form controller specification).
MaxForms == 2
\* Cap of a Form's version counter.
MaxVersion == 3
\* Records of the external table during a full resync, and largest page size.
MaxRecords == 7
MaxPageSize == 3
\* Records of one createdRecords/updatedRecords event.
MaxEventRecords == 12
\* Submissions in the specification of failure and retry.
MaxRecoverResponses == 1
\* The most conditions of a rule handed to the rule engine.
MaxConditions == 2
\* The syncSingleRecord calls one behaviour of the interleaving model starts.
MaxCalls == 2

(***************************************************************************)
(* Program constants.                                                      *)
(***************************************************************************)
batchSize == 10
maxRetries == 3

\* Minimum of two integers.
Min(a, b) == IF a < b THEN a ELSE b

\* The elements of a sequence.
Range(s) == { s[i] : i \in 1..Len(s) }

(***************************************************************************)
(* JSON values.  A value is a record [t, v]: t is its JavaScript kind and  *)
(* v a sequence of texts: the text itself (str), the decimal text (num),   *)
(* the items (arr, an array of texts), nothing (null, undef).              *)
(***************************************************************************)
Str(s) == [t |-> "str", v |-> <<s>>]
Num(s) == [t |-> "num", v |-> <<s>>]
Arr(items) == [t |-> "arr", v |-> items]
Null == [t |-> "null", v |-> <<>>]
Undefined == [t |-> "undef", v |-> <<>>]

\* The texts of the model and the characters of each.
Texts == {"", "A", "basic", "pro", "5", "10"}
Chars(s) ==
  CASE s = "" -> <<>>
    [] s = "A" -> <<"A">>
    [] s = "basic" -> <<"b", "a", "s", "i", "c">>
    [] s = "pro" -> <<"p", "r", "o">>
    [] s = "5" -> <<"5">>
    [] s = "10" -> <<"1", "0">>

Digits == <<"0", "1", "2", "3", "4", "5", "6", "7", "8", "9">>
IsDigit(c) == \E d \in 1..10 : Digits[d] = c
DigitVal(c) == (CHOOSE d \in 1..10 : Digits[d] = c) - 1

\* String(value): a text as its characters, an array joined by commas.
RECURSIVE JoinChars(_)
JoinChars(items) ==
  IF Len(items) = 0 THEN <<>>
  ELSE IF Len(items) = 1 THEN Chars(items[1])
  ELSE Chars(items[1]) \o <<",">> \o JoinChars(Tail(items))

ToStringChars(x) ==
  CASE x.t = "str" -> Chars(x.v[1])
    [] x.t = "num" -> Chars(x.v[1])
    [] x.t = "arr" -> JoinChars(x.v)
    [] x.t = "null" -> <<"n", "u", "l", "l">>
    [] x.t = "fn" -> <<"f", "u", "n", "c", "t", "i", "o", "n">>
    [] OTHER -> <<"u", "n", "d", "e", "f", "i", "n", "e", "d">>

\* The longest prefix of decimal digits of a character sequence.
RECURSIVE DigitPrefix(_)
DigitPrefix(cs) ==
  IF Len(cs) = 0 \/ ~IsDigit(cs[1]) THEN <<>>
  ELSE <<cs[1]>> \o DigitPrefix(Tail(cs))

RECURSIVE DigitsValue(_, _)
DigitsValue(cs, acc) ==
  IF Len(cs) = 0 THEN acc ELSE DigitsValue(Tail(cs), acc * 10 + DigitVal(cs[1]))

\* A number or NaN, as [nan, n].
NaN == [nan |-> TRUE, n |-> 0]
Number(n) == [nan |-> FALSE, n |-> n]

\* parseFloat(x): String(x), then its leading decimal digits; NaN without any.
parseFloat(x) ==
  LET p == DigitPrefix(ToStringChars(x))
  IN IF Len(p) = 0 THEN NaN ELSE Number(DigitsValue(p, 0))

\* ToNumber of a text: the empty text is 0, a text of digits its value, else NaN.
ToNumberChars(cs) ==
  IF Len(cs) = 0 THEN Number(0)
  ELSE IF DigitPrefix(cs) = cs THEN Number(DigitsValue(cs, 0))
  ELSE NaN

\* JavaScript's loose equality (==) on the values of the model.
LooseEquals(a, b) ==
  CASE a.t \in {"null", "undef"} -> b.t \in {"null", "undef"}
    [] b.t \in {"null", "undef"} -> FALSE
    [] a.t = "arr" /\ b.t = "arr" -> FALSE
    [] a.t = "num" /\ b.t = "num" -> ToNumberChars(Chars(a.v[1])) = ToNumberChars(Chars(b.v[1]))
    [] a.t = "num" \/ b.t = "num" ->
         LET na == ToNumberChars(ToStringChars(a))
             nb == ToNumberChars(ToStringChars(b))
         IN ~na.nan /\ ~nb.nan /\ na.n = nb.n
    [] OTHER -> ToStringChars(a) = ToStringChars(b)

\* String.prototype.includes: sub occurs in cs.
IsSubstring(sub, cs) ==
  \E i \in 0..(Len(cs) - Len(sub)) : SubSeq(cs, i + 1, i + Len(sub)) = sub

\* Array.prototype.includes(expected) on an array of texts (SameValueZero).
ArrayIncludes(items, expected) ==
  expected.t = "str" /\ \E i \in 1..Len(items) : items[i] = expected.v[1]

(***************************************************************************)
(* ConditionalLogicEngine.operators (conditionalLogic.js:3-34).            *)
(***************************************************************************)
Operators == {"equals", "notEquals", "contains", "notContains", "greaterThan", "lessThan"}

ApplyOperator(op, actual, expected) ==
  CASE op = "equals" -> LooseEquals(actual, expected)
    [] op = "notEquals" -> ~LooseEquals(actual, expected)
    [] op = "contains" ->
         IF actual.t = "arr" THEN ArrayIncludes(actual.v, expected)
         ELSE IF actual.t = "str" THEN IsSubstring(ToStringChars(expected), ToStringChars(actual))
         ELSE FALSE
    [] op = "notContains" ->
         IF actual.t = "arr" THEN ~ArrayIncludes(actual.v, expected)
         ELSE IF actual.t = "str" THEN ~IsSubstring(ToStringChars(expected), ToStringChars(actual))
         ELSE TRUE
    [] op = "greaterThan" ->
         LET na == parseFloat(actual)
             ne == parseFloat(expected)
         IN ~na.nan /\ ~ne.nan /\ na.n > ne.n
    [] op = "lessThan" ->
         LET na == parseFloat(actual)
             ne == parseFloat(expected)
         IN ~na.nan /\ ~ne.nan /\ na.n < ne.n

(***************************************************************************)
(* Plain JavaScript objects used as maps ({}): a key that names a property *)
(* of Object.prototype reads as truthy (the inherited function) until the  *)
(* map gets an own property of that name.                                  *)
(***************************************************************************)
ObjectPrototypeKeys ==
  {"constructor", "toString", "valueOf", "hasOwnProperty", "isPrototypeOf",
   "propertyIsEnumerable", "toLocaleString"}

\* The value such a key reads as: a function inherited from Object.prototype.
Inherited == [t |-> "fn", v |-> <<>>]

\* answers[key] of a request body (a plain object): the own value, the
\* inherited function for an absent key that names a property of
\* Object.prototype, undefined for any other absent key.
Lookup(answers, key) ==
  IF key \in DOMAIN answers THEN answers[key]
  ELSE IF key \in ObjectPrototypeKeys THEN Inherited
  ELSE Undefined

\* A missing answer: undefined, null or the empty string.
IsMissing(x) == x.t \in {"undef", "null"} \/ x = Str("")

\* One condition of a rule against the answers (conditionalLogic.js:50-70).
EvalCondition(condition, answers) ==
  LET answer == Lookup(answers, condition.questionKey)
  IN IF condition.operator \notin Operators THEN FALSE
     ELSE IF IsMissing(answer) THEN FALSE
     ELSE ApplyOperator(condition.operator, answer, condition.value)

\* The absent rule of a question.
NoRule == [logic |-> "none", conditions |-> <<>>]

\* A faulty combination that takes every logic for OR.
shouldShowQuestionAnyOf(rules, answers) ==
  IF rules = NoRule \/ Len(rules.conditions) = 0 THEN TRUE
  ELSE \E i \in 1..Len(rules.conditions) : EvalCondition(rules.conditions[i], answers)

\* shouldShowQuestion(rules, answers) (conditionalLogic.js:43-79).
shouldShowQuestion(rules, answers) ==
  IF rules = NoRule \/ Len(rules.conditions) = 0 THEN TRUE
  ELSE IF rules.logic = "OR"
    THEN \E i \in 1..Len(rules.conditions) : EvalCondition(rules.conditions[i], answers)
    ELSE \A i \in 1..Len(rules.conditions) : EvalCondition(rules.conditions[i], answers)

(***************************************************************************)
(* Questions and rules.  A question is a record [questionKey,              *)
(* airtableFieldId, label, type, required, options, conditionalRules]; a   *)
(* rule is NoRule or [logic, conditions], a condition [questionKey,        *)
(* operator, value].  Questions of the model carry no validationRules.     *)
(***************************************************************************)
Rule(logic, conditions) == [logic |-> logic, conditions |-> conditions]
Cond(key, op, value) == [questionKey |-> key, operator |-> op, value |-> value]

Question(key, field, type, required, options, rules) ==
  [questionKey |-> key, airtableFieldId |-> field, label |-> key, type |-> type,
   required |-> required, options |-> options, conditionalRules |-> rules]

\* The questionKey of every question, in order (questions.map(q => q.questionKey)).
QuestionKeys(questions) == [i \in 1..Len(questions) |-> questions[i].questionKey]

(***************************************************************************)
(* ConditionalLogicEngine.validateRules (conditionalLogic.js:99-140): the  *)
(* number of errors of one condition, then validity of the rule.  The      *)
(* operator is looked up in the plain object this.operators.               *)
(***************************************************************************)
ConditionErrors(condition, availableQuestions) ==
  (IF condition.questionKey = "" \/ condition.questionKey \notin Range(availableQuestions)
     THEN 1 ELSE 0)
  + (IF condition.operator = ""
        \/ condition.operator \notin (Operators \cup ObjectPrototypeKeys) THEN 1 ELSE 0)
  + (IF condition.value.t \in {"undef", "null"} THEN 1 ELSE 0)

validateRules(rules, availableQuestions) ==
  IF rules = NoRule THEN TRUE
  ELSE IF Len(rules.conditions) = 0 THEN FALSE
  ELSE rules.logic \in {"AND", "OR"}
       /\ \A i \in 1..Len(rules.conditions) :
            ConditionErrors(rules.conditions[i], availableQuestions) = 0

(***************************************************************************)
(* ConditionalLogicEngine.createDependencyGraph (conditionalLogic.js:      *)
(* 169-191).  The graph is kept as its list of edges <<referenced key,     *)
(* dependent key>>, in the order the code pushes them; an edge is added    *)
(* when graph[referenced key] is truthy.  raised: the push on an inherited *)
(* property (a referenced key that is no question but names a property of  *)
(* Object.prototype) throws.                                               *)
(***************************************************************************)
RECURSIVE ConditionEdges(_, _, _)
ConditionEdges(question, i, keys) ==
  IF question.conditionalRules = NoRule \/ i > Len(question.conditionalRules.conditions)
    THEN <<>>
  ELSE LET c == question.conditionalRules.conditions[i]
       IN (IF c.questionKey \in keys THEN << <<c.questionKey, question.questionKey>> >> ELSE <<>>)
          \o ConditionEdges(question, i + 1, keys)

RECURSIVE GraphEdges(_, _, _)
GraphEdges(questions, i, keys) ==
  IF i > Len(questions) THEN <<>>
  ELSE ConditionEdges(questions[i], 1, keys) \o GraphEdges(questions, i + 1, keys)

createDependencyGraph(questions) ==
  LET keys == Range(QuestionKeys(questions))
  IN [nodes |-> QuestionKeys(questions),
      edges |-> GraphEdges(questions, 1, keys),
      raised |-> \E i \in 1..Len(questions) :
                   /\ questions[i].conditionalRules # NoRule
                   /\ \E c \in 1..Len(questions[i].conditionalRules.conditions) :
                        LET key == questions[i].conditionalRules.conditions[c].questionKey
                        IN key \notin keys /\ key \in ObjectPrototypeKeys]

\* graph[node].dependentBy: the questions whose rule references node.
RECURSIVE DependentBy(_, _, _)
DependentBy(graph, node, i) ==
  IF i > Len(graph.edges) THEN <<>>
  ELSE (IF graph.edges[i][1] = node THEN <<graph.edges[i][2]>> ELSE <<>>)
       \o DependentBy(graph, node, i + 1)

\* graph[node].dependsOn: the questions node's rule references.
RECURSIVE DependsOn(_, _, _)
DependsOn(graph, node, i) ==
  IF i > Len(graph.edges) THEN <<>>
  ELSE (IF graph.edges[i][2] = node THEN <<graph.edges[i][1]>> ELSE <<>>)
       \o DependsOn(graph, node, i + 1)

(***************************************************************************)
(* ConditionalLogicEngine.detectCircularDependencies (conditionalLogic.js: *)
(* 198-235): the depth-first search over dependentBy with the visited and  *)
(* recursionStack maps, both plain objects.  st = [visited, stack,         *)
(* unstacked, cycles]: the keys visited[k] = true was assigned to, the     *)
(* keys whose recursionStack entry is true, those whose entry is false.    *)
(***************************************************************************)
\* visited[node] and recursionStack[node] as the code reads them.
IsVisited(st, node) == node \in st.visited \/ node \in ObjectPrototypeKeys
InRecursionStack(st, node) ==
  node \in st.stack \/ (node \notin st.unstacked /\ node \in ObjectPrototypeKeys)

RECURSIVE dfs(_, _, _, _)
RECURSIVE dfsDependencies(_, _, _, _, _)
dfsDependencies(graph, deps, i, path, st) ==
  IF i > Len(deps) THEN st
  ELSE LET dep == deps[i]
           newPath == Append(path, dep)
           st1 == IF ~IsVisited(st, dep) THEN dfs(graph, dep, newPath, st)
                  ELSE IF InRecursionStack(st, dep)
                    THEN [st EXCEPT !.cycles = Append(@, newPath)]
                  ELSE st
       IN dfsDependencies(graph, deps, i + 1, path, st1)

dfs(graph, node, path, st) ==
  LET st1 == IF ~IsVisited(st, node)
               THEN dfsDependencies(graph, DependentBy(graph, node, 1), 1, path,
                      [st EXCEPT !.visited = @ \cup {node},
                                 !.stack = @ \cup {node},
                                 !.unstacked = @ \ {node}])
             ELSE st
  IN [st1 EXCEPT !.stack = @ \ {node}, !.unstacked = @ \cup {node}]

RECURSIVE dfsRoots(_, _, _)
dfsRoots(graph, i, st) ==
  IF i > Len(graph.nodes) THEN st
  ELSE dfsRoots(graph, i + 1,
         IF ~IsVisited(st, graph.nodes[i])
           THEN dfs(graph, graph.nodes[i], <<graph.nodes[i]>>, st)
         ELSE st)

\* [raised, hasCycles, cycles]; raised when building the graph throws.
detectCircularDependencies(questions) ==
  LET graph == createDependencyGraph(questions)
      st == dfsRoots(graph, 1,
                     [visited |-> {}, stack |-> {}, unstacked |-> {}, cycles |-> <<>>])
  IN [raised |-> graph.raised, hasCycles |-> Len(st.cycles) > 0, cycles |-> st.cycles]

(***************************************************************************)
(* The external table bound to the forms of the model and its fields, as   *)
(* the external API describes them: [id, type], type the external type.    *)
(***************************************************************************)
BaseId == "base1"
TableId == "table1"
RawFields ==
  << [id |-> "fldName", type |-> "singleLineText"],
     [id |-> "fldPlan", type |-> "singleSelect"],
     [id |-> "fldDiscount", type |-> "singleLineText"],
     [id |-> "fldCount", type |-> "number"] >>

\* The mapped type of an external type, "null" when unsupported
\* (AirtableService.mapAirtableField, FormValidator.airtableTypeMap).
MappedType(fieldType) ==
  CASE fieldType \in {"singleLineText", "email", "url"} -> "shortText"
    [] fieldType \in {"multilineText", "richText"} -> "longText"
    [] fieldType = "singleSelect" -> "singleSelect"
    [] fieldType = "multipleSelects" -> "multiSelect"
    [] fieldType = "multipleAttachments" -> "attachment"
    [] OTHER -> "null"

mapAirtableField(airtableField) ==
  [id |-> airtableField.id, type |-> MappedType(airtableField.type),
   airtableType |-> airtableField.type]

\* table.fields as getBaseTables returns them.
TableFields == [i \in 1..Len(RawFields) |-> mapAirtableField(RawFields[i])]

supportedTypes == {"shortText", "longText", "singleSelect", "multiSelect", "attachment"}

(***************************************************************************)
(* FormValidator.validateQuestions (formValidation.js:26-119): TRUE when   *)
(* no error is pushed for any question.                                    *)
(***************************************************************************)
QuestionValid(questions, i, airtableFields) ==
  LET q == questions[i]
      matches == { j \in 1..Len(airtableFields) : airtableFields[j].id = q.airtableFieldId }
  IN /\ q.questionKey # ""
     /\ \A j \in 1..(i - 1) : questions[j].questionKey # q.questionKey
     /\ q.airtableFieldId # ""
     /\ \A j \in 1..(i - 1) : questions[j].airtableFieldId # q.airtableFieldId
     /\ q.label # ""
     /\ q.type \in supportedTypes
     /\ matches # {}
     /\ LET f == airtableFields[CHOOSE j \in matches : \A k \in matches : j <= k]
        IN f.type = q.type \/ MappedType(f.airtableType) = q.type
     /\ (q.type \in {"singleSelect", "multiSelect"}
           => Len(q.options) > 0 /\ \A o \in 1..Len(q.options) : q.options[o] # "")

\* A faulty validation that does not compare a question with its field.
validateQuestionsUnbound(questions, airtableFields) ==
  \A i \in 1..Len(questions) :
    /\ questions[i].questionKey # ""
    /\ \A j \in 1..(i - 1) : questions[j].questionKey # questions[i].questionKey
    /\ questions[i].label # ""
    /\ questions[i].type \in supportedTypes

validateQuestions(questions, airtableFields) ==
  \A i \in 1..Len(questions) : QuestionValid(questions, i, airtableFields)

\* All conditional rules of a question list are valid (formController.js:106-129).
RulesValid(questions) ==
  \A i \in 1..Len(questions) :
    validateRules(questions[i].conditionalRules, QuestionKeys(questions))

\* The checks createForm and updateForm make on a question list before storing it.
QuestionsAccepted(questions) ==
  /\ validateQuestions(questions, TableFields)
  /\ RulesValid(questions)
  /\ ~detectCircularDependencies(questions).raised
  /\ ~detectCircularDependencies(questions).hasCycles

(***************************************************************************)
(* Form documents: [airtableBaseId, airtableTableId, questions, isActive,  *)
(* publishedAt, version]; publishedAt is TRUE when a date is set.  The     *)
(* store is the sequence of documents, a document's _id its index.         *)
(***************************************************************************)
NewForm(baseId, tableId, questions, published) ==
  [airtableBaseId |-> baseId, airtableTableId |-> tableId, questions |-> questions,
   isActive |-> TRUE, publishedAt |-> published, version |-> 1]

\* form.getQuestion(questionKey): the index of the first question with the key, 0 if none.
getQuestion(form, questionKey) ==
  LET hits == { i \in 1..Len(form.questions) : form.questions[i].questionKey = questionKey }
  IN IF hits = {} THEN 0 ELSE CHOOSE i \in hits : \A j \in hits : i <= j

\* The form of the end-to-end scenario: name, plan and a discount shown for plan = pro.
ScenarioQuestions ==
  << Question("name", "fldName", "shortText", TRUE, <<>>, NoRule),
     Question("plan", "fldPlan", "singleSelect", FALSE, <<"basic", "pro">>, NoRule),
     Question("discount", "fldDiscount", "shortText", FALSE, <<>>,
              Rule("AND", <<Cond("plan", "equals", Str("pro"))>>)) >>

ScenarioForm == NewForm(BaseId, TableId, ScenarioQuestions, TRUE)

(***************************************************************************)
(* Response documents: [formId, airtableRecordId, status, answers,         *)
(* syncAttempts, syncError, lastSyncedAt].  An airtableRecordId n > 0 is   *)
(* the id of the n-th record of the external table; n < 0 is the local     *)
(* placeholder local_<...> of the (-n)-th stored response.  answers is the *)
(* list of [questionKey, value]; syncError is "none" when null or unset.   *)
(* lastSyncedAt is "null" or the name of the operation whose new Date()    *)
(* stamped it last.  The store is the sequence of documents in insertion   *)
(* order, a document's _id its index.                                      *)
(***************************************************************************)
Statuses == {"pending", "submitted", "synced", "failed", "deleted"}

Answer(key, value) == [questionKey |-> key, value |-> value]

IsPlaceholder(recordId) == recordId < 0

\* Response.findOne({ airtableRecordId }): the index of the first match, 0 if none.
FindByRecordId(rs, recordId) ==
  LET hits == { i \in 1..Len(rs) : rs[i].airtableRecordId = recordId }
  IN IF hits = {} THEN 0 ELSE CHOOSE i \in hits : \A j \in hits : i <= j

\* The unique index on airtableRecordId (Form.js:381-386, 424): a new
\* document is refused when its id is already stored.
UniqueIndexAllows(rs, doc) ==
  \A i \in 1..Len(rs) : rs[i].airtableRecordId # doc.airtableRecordId

\* Form.findOne({ airtableBaseId, airtableTableId, isActive: true }).
FindActiveForm(fs, baseId, tableId) ==
  LET hits == { i \in 1..Len(fs) : /\ fs[i].airtableBaseId = baseId
                                   /\ fs[i].airtableTableId = tableId
                                   /\ fs[i].isActive }
  IN IF hits = {} THEN 0 ELSE CHOOSE i \in hits : \A j \in hits : i <= j

\* Field maps: lists of [field, value]; the value of a field, undefined when absent.
Field(id, value) == [field |-> id, value |-> value]
FieldValue(fields, id) ==
  LET hits == { i \in 1..Len(fields) : fields[i].field = id }
  IN IF hits = {} THEN Undefined ELSE fields[CHOOSE i \in hits : \A j \in hits : i >= j].value

\* The answers of a fetched record: one per question whose field is present
\* (webhookSyncService.js:176-187).
\* A faulty mapping that answers null for a field the record lacks.
RECURSIVE FieldsToAnswersDefaults(_, _, _)
FieldsToAnswersDefaults(questions, i, fields) ==
  IF i > Len(questions) THEN <<>>
  ELSE LET fieldValue == FieldValue(fields, questions[i].airtableFieldId)
       IN <<Answer(questions[i].questionKey,
                   IF fieldValue # Undefined THEN fieldValue ELSE Null)>>
          \o FieldsToAnswersDefaults(questions, i + 1, fields)

RECURSIVE FieldsToAnswers(_, _, _)
FieldsToAnswers(questions, i, fields) ==
  IF i > Len(questions) THEN <<>>
  ELSE LET fieldValue == FieldValue(fields, questions[i].airtableFieldId)
       IN (IF fieldValue # Undefined
             THEN <<Answer(questions[i].questionKey, fieldValue)>> ELSE <<>>)
          \o FieldsToAnswers(questions, i + 1, fields)

(***************************************************************************)
(* What the outside world does during one syncSingleRecord call:           *)
(* tokenOk (the owner exists with an unexpired token), fetch (the outcome  *)
(* of getRecord: "ok" with fields, "throw", "null" for an empty body,      *)
(* "malformed" for a body without fields, on which the mapping throws),    *)
(* saveOk (response.save() of the try block), errSaveOk (the save of the   *)
(* catch block).                                                           *)
(***************************************************************************)
FetchedFields ==
  << <<Field("fldName", Str("A"))>>,
     <<Field("fldName", Str("A")), Field("fldPlan", Str("pro")), Field("fldOther", Str("5"))>> >>

SyncEnv(tokenOk, fetch, fields, saveOk, errSaveOk) ==
  [tokenOk |-> tokenOk, fetch |-> fetch, fields |-> fields,
   saveOk |-> saveOk, errSaveOk |-> errSaveOk]

SyncEnvs ==
  { SyncEnv(FALSE, "ok", <<>>, TRUE, TRUE),
    SyncEnv(TRUE, "null", <<>>, TRUE, TRUE),
    SyncEnv(TRUE, "throw", <<>>, TRUE, TRUE),
    SyncEnv(TRUE, "throw", <<>>, TRUE, FALSE),
    SyncEnv(TRUE, "malformed", <<>>, TRUE, TRUE) }
  \cup { SyncEnv(TRUE, "ok", FetchedFields[f], TRUE, TRUE) : f \in 1..Len(FetchedFields) }
  \cup { SyncEnv(TRUE, "ok", FetchedFields[1], FALSE, e) : e \in BOOLEAN }

\* The calls in which the fetch, the mapping and the save all succeed.
SuccessEnvs == { e \in SyncEnvs : e.tokenOk /\ e.fetch = "ok" /\ e.saveOk }

\* The error a call raises inside its try block, "none" when it raises none.
SyncErrorOf(env) ==
  CASE env.fetch = "throw" -> "fetchError"
    [] env.fetch = "malformed" -> "mapError"
    [] env.fetch = "ok" /\ ~env.saveOk -> "saveError"
    [] OTHER -> "none"

\* A faulty catch block that records the failure without counting the attempt.
SyncCatchUncounted(rs, recordId, message, errSaveOk) ==
  LET i == FindByRecordId(rs, recordId)
  IN IF i # 0 /\ errSaveOk
       THEN [rs EXCEPT ![i] = [@ EXCEPT !.status = "failed", !.syncError = message]]
     ELSE rs

\* The catch block of syncSingleRecord (webhookSyncService.js:216-231).
SyncCatch(rs, recordId, message, errSaveOk) ==
  LET i == FindByRecordId(rs, recordId)
  IN IF i # 0 /\ errSaveOk
       THEN [rs EXCEPT ![i] = [@ EXCEPT !.status = "failed",
                                        !.syncError = message,
                                        !.syncAttempts = @ + 1]]
     ELSE rs

\* A faulty find-or-create that never finds and always inserts.
SyncUpsertAlwaysCreates(rs, formId, recordId, answers) ==
  Append(rs, [formId |-> formId, airtableRecordId |-> recordId,
              status |-> "synced", answers |-> answers,
              syncAttempts |-> 1, syncError |-> "none",
              lastSyncedAt |-> "syncSingleRecord"])

\* The find-or-create of syncSingleRecord (webhookSyncService.js:189-213).
SyncUpsert(rs, formId, recordId, answers) ==
  LET i == FindByRecordId(rs, recordId)
  IN IF i # 0
       THEN [rs EXCEPT ![i] = [@ EXCEPT !.answers = answers,
                                        !.status = "synced",
                                        !.lastSyncedAt = "syncSingleRecord",
                                        !.syncAttempts = @ + 1]]
     ELSE Append(rs, [formId |-> formId, airtableRecordId |-> recordId,
                      status |-> "synced", answers |-> answers,
                      syncAttempts |-> 1, syncError |-> "none",
                      lastSyncedAt |-> "syncSingleRecord"])

\* A faulty sync that goes on without the owner's token.
syncSingleRecordIgnoresToken(rs, fs, baseId, tableId, recordId, env) ==
  LET f == FindActiveForm(fs, baseId, tableId)
  IN IF f = 0 THEN rs
     ELSE IF env.fetch = "null" THEN rs
     ELSE IF SyncErrorOf(env) # "none"
       THEN SyncCatch(rs, recordId, SyncErrorOf(env), env.errSaveOk)
     ELSE SyncUpsert(rs, f, recordId, FieldsToAnswers(fs[f].questions, 1, env.fields))

\* syncSingleRecord(baseId, tableId, recordId) (webhookSyncService.js:142-232):
\* the store it leaves.  The call never raises.
syncSingleRecord(rs, fs, baseId, tableId, recordId, env) ==
  LET f == FindActiveForm(fs, baseId, tableId)
  IN IF f = 0 THEN rs
     ELSE IF ~env.tokenOk THEN rs
     ELSE IF env.fetch = "null" THEN rs
     ELSE IF SyncErrorOf(env) # "none"
       THEN SyncCatch(rs, recordId, SyncErrorOf(env), env.errSaveOk)
     ELSE SyncUpsert(rs, f, recordId, FieldsToAnswers(fs[f].questions, 1, env.fields))

\* Response.markAsDeleted(airtableRecordId) (Form.js:477-486).
markAsDeleted(rs, recordId) ==
  LET i == FindByRecordId(rs, recordId)
  IN IF i = 0 THEN rs
     ELSE [rs EXCEPT ![i] = [@ EXCEPT !.status = "deleted",
                                      !.lastSyncedAt = "markAsDeleted"]]

(***************************************************************************)
(* Webhook payloads: [hasBase, baseId, hasWebhook, action, tableId,        *)
(* hasRecordIds, recordIds]; tableId "" when missing.  Record ids of one   *)
(* event are distinct.                                                     *)
(***************************************************************************)
Payload(baseId, action, tableId, recordIds) ==
  [hasBase |-> TRUE, baseId |-> baseId, hasWebhook |-> TRUE, action |-> action,
   tableId |-> tableId, hasRecordIds |-> TRUE, recordIds |-> recordIds]

\* One batch of handleUpdatedRecords: the records lo..hi of the event, each
\* synced in its own outside world (webhookSyncService.js:99-101).
RECURSIVE SyncBatch(_, _, _, _, _, _, _)
SyncBatch(rs, fs, baseId, webhook, lo, hi, envs) ==
  IF lo > hi THEN rs
  ELSE SyncBatch(
         syncSingleRecord(rs, fs, baseId, webhook.tableId, webhook.recordIds[lo], envs[lo]),
         fs, baseId, webhook, lo + 1, hi, envs)

\* The batch loop of handleUpdatedRecords from index i on
\* (webhookSyncService.js:95-105).
RECURSIVE SyncBatches(_, _, _, _, _, _)
SyncBatches(rs, fs, baseId, webhook, i, envs) ==
  IF i > Len(webhook.recordIds) THEN rs
  ELSE SyncBatches(
         SyncBatch(rs, fs, baseId, webhook, i,
                   Min(i + batchSize - 1, Len(webhook.recordIds)), envs),
         fs, baseId, webhook, i + batchSize, envs)

\* A faulty loop that stops at the first id without a Response.
RECURSIVE DeleteEachStopsOnMiss(_, _, _, _)
DeleteEachStopsOnMiss(rs, recordIds, i, envs) ==
  IF i > Len(recordIds) \/ FindByRecordId(rs, recordIds[i]) = 0 THEN rs
  ELSE DeleteEachStopsOnMiss(
         IF envs[i].saveOk THEN markAsDeleted(rs, recordIds[i]) ELSE rs,
         recordIds, i + 1, envs)

\* handleDeletedRecords (webhookSyncService.js:119-137); a record whose
\* update raises (~envs[i].saveOk) is logged and skipped.
RECURSIVE DeleteEach(_, _, _, _)
DeleteEach(rs, recordIds, i, envs) ==
  IF i > Len(recordIds) THEN rs
  ELSE DeleteEach(IF envs[i].saveOk THEN markAsDeleted(rs, recordIds[i]) ELSE rs,
                  recordIds, i + 1, envs)

\* A faulty dispatch that raises on an action it does not know.
processWebhookRejectsUnknown(rs, fs, payload, envs, findOk) ==
  IF ~payload.hasBase \/ ~payload.hasWebhook
    THEN [raised |-> "Invalid webhook payload", rs |-> rs]
  ELSE IF payload.action \in {"updatedRecords", "createdRecords"}
    THEN IF payload.tableId = "" \/ ~payload.hasRecordIds
           THEN [raised |-> "Invalid updated records payload", rs |-> rs]
         ELSE IF ~findOk THEN [raised |-> "storeError", rs |-> rs]
         ELSE IF FindActiveForm(fs, payload.baseId, payload.tableId) = 0
           THEN [raised |-> "none", rs |-> rs]
         ELSE [raised |-> "none",
               rs |-> SyncBatches(rs, fs, payload.baseId, payload, 1, envs)]
  ELSE IF payload.action = "deletedRecords"
    THEN IF payload.tableId = "" \/ ~payload.hasRecordIds
           THEN [raised |-> "Invalid deleted records payload", rs |-> rs]
         ELSE [raised |-> "none", rs |-> DeleteEach(rs, payload.recordIds, 1, envs)]
  ELSE [raised |-> "Unhandled webhook action", rs |-> rs]

\* processWebhook(payload) (webhookSyncService.js:37-71): [raised, rs], the
\* error it throws to its caller ("none" when it returns) and the store it
\* leaves.  findOk: the Form.find of handleUpdatedRecords succeeds; its
\* rejection is the store failure the call passes on.
processWebhook(rs, fs, payload, envs, findOk) ==
  IF ~payload.hasBase \/ ~payload.hasWebhook
    THEN [raised |-> "Invalid webhook payload", rs |-> rs]
  ELSE IF payload.action \in {"updatedRecords", "createdRecords"}
    THEN IF payload.tableId = "" \/ ~payload.hasRecordIds
           THEN [raised |-> "Invalid updated records payload", rs |-> rs]
         ELSE IF ~findOk THEN [raised |-> "storeError", rs |-> rs]
         ELSE IF FindActiveForm(fs, payload.baseId, payload.tableId) = 0
           THEN [raised |-> "none", rs |-> rs]
         ELSE [raised |-> "none",
               rs |-> SyncBatches(rs, fs, payload.baseId, payload, 1, envs)]
  ELSE IF payload.action = "deletedRecords"
    THEN IF payload.tableId = "" \/ ~payload.hasRecordIds
           THEN [raised |-> "Invalid deleted records payload", rs |-> rs]
         ELSE [raised |-> "none", rs |-> DeleteEach(rs, payload.recordIds, 1, envs)]
  ELSE [raised |-> "none", rs |-> rs]

(***************************************************************************)
(* State.                                                                  *)
(***************************************************************************)
VARIABLES
  forms,          \* the Form collection
  responses,      \* the Response collection
  ext,            \* the records our pushes wrote to the external table
  retry,          \* the retryFailedSyncs scan in progress
  resync,         \* the syncAllRecordsForForm call in progress
  res,            \* the last request or call and its reply
  webhookSecret,  \* process.env.WEBHOOK_SECRET, "" when unset
  event           \* the createdRecords/updatedRecords event being processed

vars == <<forms, responses, ext, retry, resync, res, webhookSecret, event>>

NoRetry == [pc |-> "idle", queue |-> <<>>, limit |-> 0]
NoResync == [pc |-> "idle", formId |-> 0, records |-> 0, pageSize |-> 0, offset |-> 0,
             nextOffset |-> 0,
             page |-> <<>>, fetched |-> <<>>, syncedCount |-> 0, errorCount |-> 0,
             pageFailed |-> FALSE]
\* No request handled yet.  A reply is [op, status, success, processed, body,
\* signature]: the handler, the HTTP status and success flag of its reply,
\* whether processWebhook was called, and the request's body and signature.
NoReply == [op |-> "none", status |-> 0, success |-> FALSE, processed |-> FALSE,
            body |-> <<>>, signature |-> <<>>]
\* No event in hand.  An event is [pc, recordIds, i, inflight, calls, raised,
\* running]: i the index the batch in hand starts at, inflight the indices
\* of the records whose syncSingleRecord call has started and not yet
\* settled, calls[k] the number of calls started for the k-th record of the
\* event, raised whether handleUpdatedRecords raised, running the
\* syncSingleRecord calls followed statement by statement.
NoEvent == [pc |-> "idle", recordIds |-> <<>>, i |-> 0, inflight |-> {},
            calls |-> <<>>, raised |-> FALSE, running |-> <<>>]

\* No syncAttempts counter exceeds the cap of the model.
AttemptsBounded(rs) == \A i \in 1..Len(rs) : rs[i].syncAttempts <= MaxAttempts

PushAttemptsBounded(rs) == \A i \in 1..Len(rs) : rs[i].syncAttempts <= MaxPushAttempts

\* The ids of the records of the external table a webhook may mention.
RecordIds == 1..MaxRecordIds

(***************************************************************************)
(* The inbound synchronisation engine.                                     *)
(***************************************************************************)
InitSync ==
  /\ forms = <<ScenarioForm>>
  /\ responses = <<>>
  /\ ext = <<>>
  /\ retry = NoRetry
  /\ resync = NoResync
  /\ res = NoReply
  /\ webhookSecret = ""
  /\ event = NoEvent

\* A direct call syncSingleRecord(baseId, tableId, recordId).
SyncSingleRecordCall(recordId, env) ==
  /\ responses' = syncSingleRecord(responses, forms, BaseId, TableId, recordId, env)
  /\ AttemptsBounded(responses')
  /\ UNCHANGED <<forms, ext, retry, resync, res, webhookSecret, event>>

\* deleteForm (formController.js:344-380): the soft delete of an active form.
DeleteFormCall(id) ==
  /\ id \in 1..Len(forms)
  /\ forms[id].isActive
  /\ forms' = [forms EXCEPT ![id] = [@ EXCEPT !.isActive = FALSE, !.publishedAt = FALSE]]
  /\ UNCHANGED <<responses, ext, retry, resync, res, webhookSecret, event>>

\* The record id lists of the events of the model.
RecordIdLists ==
  {<<>>} \cup { <<r>> : r \in RecordIds }
  \cup { <<p[1], p[2]>> : p \in { x \in RecordIds \X RecordIds : x[1] < x[2] } }

\* The payloads of the model: well-formed events, and the malformed ones.
Payloads ==
  { Payload(BaseId, a, TableId, ids) :
      a \in {"updatedRecords", "deletedRecords"}, ids \in RecordIdLists }
  \cup { Payload(BaseId, "createdRecords", TableId, <<r>>) : r \in RecordIds }
  \cup { Payload(BaseId, "renamedTable", TableId, <<1>>),
         Payload("base2", "updatedRecords", TableId, <<1>>),
         Payload(BaseId, "updatedRecords", "", <<1>>),
         [Payload(BaseId, "deletedRecords", TableId, <<>>) EXCEPT !.hasRecordIds = FALSE],
         [Payload(BaseId, "updatedRecords", TableId, <<>>) EXCEPT !.hasBase = FALSE] }

\* The outside worlds of the records of a payload.
EnvsFor(payload) ==
  IF payload.action = "deletedRecords"
    THEN [1..Len(payload.recordIds) ->
            { SyncEnv(TRUE, "ok", <<>>, ok, TRUE) : ok \in BOOLEAN }]
  ELSE [1..Len(payload.recordIds) -> SyncEnvs]

\* The outside world of a payload in which every store update succeeds.
StoreOk(payload) == [i \in 1..Len(payload.recordIds) |-> SyncEnv(TRUE, "ok", <<>>, TRUE, TRUE)]

\* A call processWebhook(payload).
ProcessWebhookCall(payload, envs, findOk) ==
  /\ responses' = processWebhook(responses, forms, payload, envs, findOk).rs
  /\ AttemptsBounded(responses')
  /\ UNCHANGED <<forms, ext, retry, resync, res, webhookSecret, event>>

Next ==
  \/ \E recordId \in RecordIds, env \in SyncEnvs : SyncSingleRecordCall(recordId, env)
  \/ \E payload \in Payloads, findOk \in BOOLEAN :
       \E envs \in (IF findOk THEN EnvsFor(payload) ELSE {StoreOk(payload)}) :
         ProcessWebhookCall(payload, envs, findOk)
  \/ \E id \in 1..Len(forms) : DeleteFormCall(id)

Spec == InitSync /\ [][Next]_vars

(***************************************************************************)
(* Properties of the inbound synchronisation engine.                       *)
(***************************************************************************)
\* The Responses of a store that carry the record id.
WithRecordId(rs, recordId) == { i \in 1..Len(rs) : rs[i].airtableRecordId = recordId }

\* syncStatus.syncAttempts of the Response of a record id, 0 when there is none.
AttemptsOf(rs, recordId) ==
  IF FindByRecordId(rs, recordId) = 0 THEN 0
  ELSE rs[FindByRecordId(rs, recordId)].syncAttempts

\* C1: in every reachable state with an active form, two consecutive calls
\* syncSingleRecord for the same record id, the external record unchanged
\* between them and both fetches, mappings and saves succeeding, leave exactly
\* one Response with that record id; its answers are those the first call
\* stored, its status is synced, and its attempt counter is exactly two
\* higher than before the first call (0 when no Response existed).
C1_SyncTwiceIdempotent ==
  \A recordId \in RecordIds, env \in SuccessEnvs :
    FindActiveForm(forms, BaseId, TableId) # 0 =>
      LET once == syncSingleRecord(responses, forms, BaseId, TableId, recordId, env)
          twice == syncSingleRecord(once, forms, BaseId, TableId, recordId, env)
          i == FindByRecordId(twice, recordId)
      IN /\ Cardinality(WithRecordId(twice, recordId)) = 1
         /\ twice[i].answers = once[FindByRecordId(once, recordId)].answers
         /\ twice[i].answers = FieldsToAnswers(forms[1].questions, 1, env.fields)
         /\ twice[i].status = "synced"
         /\ twice[i].syncAttempts = AttemptsOf(responses, recordId) + 2

\* C1 witness: a record synced twice with success and nothing else: one
\* Response, synced, two attempts, no error ever recorded.
C1_Witness ==
  \E recordId \in RecordIds :
    /\ Cardinality(WithRecordId(responses, recordId)) = 1
    /\ LET r == responses[FindByRecordId(responses, recordId)]
       IN r.status = "synced" /\ r.syncAttempts = 2 /\ r.syncError = "none"
                              /\ Len(r.answers) > 0

\* C2: a Response whose status is deleted keeps that status in every step of
\* the synchronisation engine (processWebhook for created, updated and
\* deleted events, syncSingleRecord).
C2_DeletedIsTerminal ==
  [][\A i \in 1..Len(responses) :
       responses[i].status = "deleted" => responses'[i].status = "deleted"]_vars

\* C10 as stated: whenever the fetch, the mapping or the save of a call
\* syncSingleRecord raises, the Response of the record id is, on return,
\* failed, carries the error text, and its attempt counter is one higher.
C10_FailureAlwaysRecorded ==
  \A recordId \in RecordIds, env \in SyncEnvs :
    (FindActiveForm(forms, BaseId, TableId) # 0 /\ env.tokenOk /\ SyncErrorOf(env) # "none") =>
      LET after == syncSingleRecord(responses, forms, BaseId, TableId, recordId, env)
          i == FindByRecordId(after, recordId)
      IN /\ i # 0
         /\ after[i].status = "failed"
         /\ after[i].syncError = SyncErrorOf(env)
         /\ after[i].syncAttempts = AttemptsOf(responses, recordId) + 1

\* C10 amended: whenever the fetch, the mapping or the save of a call
\* syncSingleRecord raises, then: if a Response of the record id exists and
\* the save of the catch block succeeds, that Response is, on return, failed,
\* carries the error text, its attempt counter is one higher, and nothing
\* else of the store changed; otherwise (no Response of the record id, or
\* the save of the catch block fails) the store is unchanged, and no
\* Response is created.
C10_FailureRecordedIfExists ==
  \A recordId \in RecordIds, env \in SyncEnvs :
    (FindActiveForm(forms, BaseId, TableId) # 0 /\ env.tokenOk /\ SyncErrorOf(env) # "none") =>
      LET after == syncSingleRecord(responses, forms, BaseId, TableId, recordId, env)
          i == FindByRecordId(responses, recordId)
      IN IF i # 0 /\ env.errSaveOk
           THEN after = [responses EXCEPT ![i] =
                           [@ EXCEPT !.status = "failed",
                                     !.syncError = SyncErrorOf(env),
                                     !.syncAttempts = responses[i].syncAttempts + 1]]
         ELSE after = responses

\* C10 witness: a Response that was synced and then failed on a raising fetch.
C10_Witness ==
  \E i \in 1..Len(responses) :
    /\ responses[i].status = "failed"
    /\ responses[i].syncError = "fetchError"
    /\ responses[i].syncAttempts = 2

(***************************************************************************)
(* One createdRecords/updatedRecords event step by step: the batch loop of *)
(* handleUpdatedRecords (webhookSyncService.js:76-106).  batch.map starts  *)
(* the calls of a batch together, the calls settle in any order, and the   *)
(* loop goes on when Promise.all has resolved.  The store holds a Response *)
(* for each of the first batchSize records, submitted and pushed earlier;  *)
(* the records after them are new to the store.                            *)
(***************************************************************************)
\* A faulty wait that resolves while calls of the batch are in flight.
BatchSettledEarly(e) == e.pc = "wait"

\* await Promise.all(batch.map(...)): every call of the batch has settled.
BatchSettled(e) == e.inflight = {}

\* A faulty call that rejects when its sync errored.
CallRejectsOnError(env) == SyncErrorOf(env) # "none"

\* The promise of a syncSingleRecord call never rejects: every statement of
\* the call is inside its try block, the update of the catch block inside an
\* inner one (webhookSyncService.js:143-231).
CallRejects(env) == FALSE

\* The events of the model: the records 1..n, and an event without tableId.
EventPayloads ==
  { Payload(BaseId, a, TableId, [k \in 1..n |-> k]) :
      a \in {"updatedRecords", "createdRecords"}, n \in 0..MaxEventRecords }
  \cup { Payload(BaseId, "updatedRecords", "", <<1>>) }

InitEvent ==
  /\ forms = <<ScenarioForm>>
  /\ responses = [k \in 1..batchSize |->
                    [formId |-> 1, airtableRecordId |-> k, status |-> "submitted",
                     answers |-> <<Answer("name", Str("A"))>>,
                     syncAttempts |-> 1, syncError |-> "none",
                     lastSyncedAt |-> "submitResponse"]]
  /\ ext = [k \in 1..MaxEventRecords |-> <<Field("fldName", Str("A"))>>]
  /\ retry = NoRetry
  /\ resync = NoResync
  /\ res = NoReply
  /\ webhookSecret = ""
  /\ event = NoEvent

\* handleUpdatedRecords up to its loop (webhookSyncService.js:76-93): it
\* raises on a payload without tableId or recordIds and returns when no
\* active form is bound to the table.
StartEvent(payload) ==
  /\ event.pc = "idle"
  /\ event' =
       IF payload.tableId = "" \/ ~payload.hasRecordIds
         THEN [NoEvent EXCEPT !.pc = "done", !.raised = TRUE]
       ELSE IF FindActiveForm(forms, payload.baseId, payload.tableId) = 0
         THEN [NoEvent EXCEPT !.pc = "done"]
       ELSE [NoEvent EXCEPT !.pc = "loop", !.recordIds = payload.recordIds, !.i = 1,
                            !.calls = [k \in 1..Len(payload.recordIds) |-> 0]]
  /\ UNCHANGED <<forms, responses, ext, retry, resync, res, webhookSecret>>

\* The loop test and batch.map: the calls of the next batch start.
StartBatch ==
  /\ event.pc = "loop"
  /\ event' =
       IF event.i > Len(event.recordIds) THEN [event EXCEPT !.pc = "done"]
       ELSE LET batch == event.i..Min(event.i + batchSize - 1, Len(event.recordIds))
            IN [event EXCEPT !.pc = "wait",
                             !.inflight = @ \cup batch,
                             !.calls = [k \in DOMAIN @ |-> IF k \in batch THEN @[k] + 1 ELSE @[k]]]
  /\ UNCHANGED <<forms, responses, ext, retry, resync, res, webhookSecret>>

\* One call in flight settles.  A rejecting call would reject Promise.all:
\* handleUpdatedRecords raises at once and starts no further batch, while
\* the calls already started run on.
SettleCall(k, env) ==
  /\ k \in event.inflight
  /\ responses' = syncSingleRecord(responses, forms, BaseId, TableId, event.recordIds[k], env)
  /\ event' = [event EXCEPT !.inflight = @ \ {k},
                            !.pc = IF CallRejects(env) THEN "done" ELSE @,
                            !.raised = @ \/ CallRejects(env)]
  /\ UNCHANGED <<forms, ext, retry, resync, res, webhookSecret>>

\* Promise.all has resolved: the rate limiting delay, then i += batchSize.
EndBatch ==
  /\ event.pc = "wait"
  /\ BatchSettled(event)
  /\ event' = [event EXCEPT !.pc = "loop", !.i = @ + batchSize]
  /\ UNCHANGED <<forms, responses, ext, retry, resync, res, webhookSecret>>

NextEvent ==
  \/ \E payload \in EventPayloads : StartEvent(payload)
  \/ StartBatch
  \/ \E k \in 1..MaxEventRecords,
          env \in { SyncEnv(TRUE, "ok", FetchedFields[1], TRUE, TRUE),
                    SyncEnv(TRUE, "throw", <<>>, TRUE, TRUE) } : SettleCall(k, env)
  \/ EndBatch

SpecEvent == InitEvent /\ [][NextEvent]_vars

\* C11: while an event is processed no record of it has more than one call
\* started; when handleUpdatedRecords has returned and every call has
\* settled, exactly one call was started for every record of the event,
\* whichever of the calls errored: every record that had a Response has it
\* synced or failed with one more attempt, and the handler did not raise.
C11_EveryRecordAttemptedOnce ==
  /\ \A k \in 1..Len(event.recordIds) : event.calls[k] <= 1
  /\ (event.pc = "done" /\ event.inflight = {} /\ Len(event.recordIds) > 0) =>
       /\ ~event.raised
       /\ \A k \in 1..Len(event.recordIds) :
            /\ event.calls[k] = 1
            /\ LET i == FindByRecordId(responses, event.recordIds[k])
               IN i # 0 =>
                    /\ responses[i].status \in {"synced", "failed"}
                    /\ responses[i].syncAttempts = IF k <= batchSize THEN 2 ELSE 1

\* C11 witness: an event of more than batchSize records is done; in its
\* first batch the first record failed and the second is synced, and the
\* record after the first batch is synced as well.
C11_Witness ==
  /\ event.pc = "done" /\ event.inflight = {}
  /\ Len(event.recordIds) > batchSize
  /\ responses[1].status = "failed" /\ responses[2].status = "synced"
  /\ FindByRecordId(responses, batchSize + 1) # 0
  /\ responses[FindByRecordId(responses, batchSize + 1)].status = "synced"

\* C12: at any moment at most batchSize calls are in flight, all of them
\* calls of the batch in hand: no call of a later batch has started, and
\* every call of an earlier batch has settled.
C12_BatchesBoundedAndDisjoint ==
  /\ Cardinality(event.inflight) <= batchSize
  /\ \A k \in event.inflight : event.i <= k /\ k < event.i + batchSize
  /\ \A k \in 1..Len(event.recordIds) :
       /\ k >= event.i + batchSize => event.calls[k] = 0
       /\ (event.pc = "wait" /\ k < event.i) => (event.calls[k] = 1 /\ k \notin event.inflight)

\* C12 witness: the second batch of an event is in flight after a first
\* batch of batchSize calls has settled.
C12_Witness ==
  /\ event.pc = "wait"
  /\ event.i = batchSize + 1
  /\ event.inflight # {}
  /\ \A k \in 1..batchSize : event.calls[k] = 1 /\ k \notin event.inflight

(***************************************************************************)
(* Deletion events, the mapping of a fetched record and the token check of *)
(* the inbound engine, on every state of Spec.                             *)
(***************************************************************************)
\* The deletedRecords events over the record ids 1..3.
DeleteEvents ==
  { Payload(BaseId, "deletedRecords", TableId, ids) :
      ids \in {<<>>} \cup { <<a>> : a \in 1..3 }
              \cup { <<p[1], p[2]>> : p \in { x \in (1..3) \X (1..3) : x[1] # x[2] } } }

\* C23: processing a deletedRecords event sets every Response whose record
\* id is listed to deleted and stamps its lastSyncedAt, leaving its answers,
\* attempts and error as they were; an id without a Response raises no
\* error, creates no Response and does not keep the ids after it from being
\* processed.
C23_DeleteMarksMatchesOnly ==
  \A payload \in DeleteEvents, findOk \in BOOLEAN :
    LET out == processWebhook(responses, forms, payload, StoreOk(payload), findOk)
    IN /\ out.raised = "none"
       /\ Len(out.rs) = Len(responses)
       /\ \A i \in 1..Len(responses) :
            IF responses[i].airtableRecordId \in Range(payload.recordIds)
              THEN /\ out.rs[i].status = "deleted"
                   /\ out.rs[i].lastSyncedAt = "markAsDeleted"
                   /\ out.rs[i] = [responses[i] EXCEPT !.status = "deleted",
                                                       !.lastSyncedAt = "markAsDeleted"]
            ELSE out.rs[i] = responses[i]

\* C23 witness: a Response that failed a sync was then deleted by an event,
\* and keeps its answers, its two attempts and its error.
C23_Witness ==
  \E i \in 1..Len(responses) :
    /\ responses[i].status = "deleted"
    /\ responses[i].lastSyncedAt = "markAsDeleted"
    /\ responses[i].syncError = "fetchError"
    /\ responses[i].syncAttempts = 2
    /\ responses[i].answers # <<>>

\* C24: after a successful syncSingleRecord for record r, the Response of r
\* is synced and its answers are exactly one answer per question of the
\* resolved form whose field the fetched record carries, with that field's
\* value; whatever answers it held before are replaced.
C24_SyncedAnswersMirrorRecord ==
  \A recordId \in RecordIds, env \in SuccessEnvs :
    LET f == FindActiveForm(forms, BaseId, TableId)
        after == syncSingleRecord(responses, forms, BaseId, TableId, recordId, env)
        i == FindByRecordId(after, recordId)
        carried == { q \in 1..Len(forms[f].questions) :
                       \E k \in 1..Len(env.fields) :
                         env.fields[k].field = forms[f].questions[q].airtableFieldId }
    IN f # 0 =>
         /\ i # 0
         /\ after[i].status = "synced"
         /\ Len(after[i].answers) = Cardinality(carried)
         /\ \A q \in carried :
              \E a \in 1..Len(after[i].answers) :
                /\ after[i].answers[a].questionKey = forms[f].questions[q].questionKey
                /\ \E k \in 1..Len(env.fields) :
                     /\ env.fields[k].field = forms[f].questions[q].airtableFieldId
                     /\ env.fields[k].value = after[i].answers[a].value
         /\ \A a \in 1..Len(after[i].answers) :
              \E q \in carried :
                after[i].answers[a].questionKey = forms[f].questions[q].questionKey

\* C24 witness: a Response synced from a record with the fields of name and
\* plan was synced again from a record that carries the name only, and holds
\* the one answer.
C24_Witness ==
  \E i \in 1..Len(responses) :
    /\ responses[i].status = "synced"
    /\ responses[i].syncAttempts = 2
    /\ responses[i].answers = <<Answer("name", Str("A"))>>

\* The outside worlds in which the owner of the form has no valid token,
\* whatever the external table and the store would answer.
TokenlessEnvs ==
  { SyncEnv(FALSE, fetch, fields, saveOk, TRUE) :
      fetch \in {"ok", "throw", "null", "malformed"},
      fields \in {<<>>} \cup Range(FetchedFields), saveOk \in BOOLEAN }

\* C26: when the owner of the form has missing or expired credentials,
\* syncSingleRecord fetches nothing, creates and changes no Response, and
\* does not raise.
C26_ExpiredTokenSkips ==
  \A recordId \in RecordIds, env \in TokenlessEnvs :
    /\ syncSingleRecord(responses, forms, BaseId, TableId, recordId, env) = responses
    /\ ~CallRejects(env)

\* C26 witness: a stored Response with a recorded failure, on which a sync
\* without a token acts.
C26_Witness ==
  /\ FindActiveForm(forms, BaseId, TableId) # 0
  /\ \E i \in 1..Len(responses) :
       /\ responses[i].airtableRecordId \in RecordIds
       /\ responses[i].status = "failed"
       /\ responses[i].syncAttempts = 3

(***************************************************************************)
(* syncSingleRecord statement by statement (webhookSyncService.js:142-232):*)
(* the calls of concurrent events, or of one batch, interleave at every    *)
(* await.  A call in flight is [recordId, pc, answers, loaded, caught,     *)
(* copy, stale, message, outcome]: pc the await it stands at, answers the  *)
(* answers mapped from the fetched record, loaded and caught the _id of    *)
(* the document the findOne of the try block and of the catch block        *)
(* returned (0 for null), copy the document as it was last read, stale     *)
(* whether a save has replaced the answers array of the document since    *)
(* the try block read it, message the error caught, outcome how the call   *)
(* ended: synced, failed (the failure was recorded), unrecorded or         *)
(* skipped.  save() of a read document writes the paths whose value        *)
(* differs from the copy.                                                  *)
(***************************************************************************)
NewCall(recordId) ==
  [recordId |-> recordId, pc |-> "fetch", answers |-> <<>>, loaded |-> 0, caught |-> 0,
   copy |-> <<>>, stale |-> FALSE, message |-> "none", outcome |-> "running"]

\* The call starts: the form is found, the owner's token is valid, and
\* getRecord is awaited.
BeginCall(recordId) ==
  /\ Len(event.running) < MaxCalls
  /\ FindActiveForm(forms, BaseId, TableId) # 0
  /\ event' = [event EXCEPT !.running = Append(@, NewCall(recordId))]
  /\ UNCHANGED <<forms, responses, ext, retry, resync, res, webhookSecret>>

\* getRecord settles (lines 163-186): with a record, whose fields are mapped
\* to answers; with null, and the call returns; or it raises.
FetchRecord(c, fetch, fields) ==
  /\ c \in 1..Len(event.running)
  /\ event.running[c].pc = "fetch"
  /\ event' =
       [event EXCEPT !.running[c] =
          CASE fetch = "ok" ->
                 [@ EXCEPT !.pc = "find",
                           !.answers = FieldsToAnswers(
                              forms[FindActiveForm(forms, BaseId, TableId)].questions,
                              1, fields)]
            [] fetch = "null" -> [@ EXCEPT !.pc = "done", !.outcome = "skipped"]
            [] OTHER -> [@ EXCEPT !.pc = "catchFind", !.message = "fetchError"]]
  /\ UNCHANGED <<forms, responses, ext, retry, resync, res, webhookSecret>>

\* Response.findOne({ airtableRecordId: recordId }) of the try block
\* settles (line 190).
FindResponse(c) ==
  /\ c \in 1..Len(event.running)
  /\ event.running[c].pc = "find"
  /\ LET i == FindByRecordId(responses, event.running[c].recordId)
     IN event' = [event EXCEPT !.running[c] =
                    [@ EXCEPT !.pc = "save", !.loaded = i, !.stale = FALSE,
                              !.copy = IF i = 0 THEN <<>> ELSE responses[i]]]
  /\ UNCHANGED <<forms, responses, ext, retry, resync, res, webhookSecret>>

\* response.save() of the try block settles (lines 192-213).  A new document
\* is inserted unless the unique index finds its airtableRecordId stored;
\* a read document has answers, lastSyncedAt and syncAttempts written, and
\* status when the copy was not synced.  versionChecked: the store refuses
\* the replacement of the answers array of a document whose array was
\* replaced since it was read.  A refused save raises into the catch block.
SaveResponse(c, versionChecked) ==
  /\ c \in 1..Len(event.running)
  /\ event.running[c].pc = "save"
  /\ LET call == event.running[c]
         raises == IF call.loaded = 0
                     THEN FindByRecordId(responses, call.recordId) # 0
                   ELSE versionChecked /\ call.stale
     IN IF raises
          THEN /\ event' = [event EXCEPT !.running[c] =
                              [@ EXCEPT !.pc = "catchFind", !.message = "saveError"]]
               /\ UNCHANGED responses
        ELSE /\ responses' =
                  IF call.loaded = 0
                    THEN SyncUpsert(responses, FindActiveForm(forms, BaseId, TableId),
                                    call.recordId, call.answers)
                  ELSE [responses EXCEPT ![call.loaded] =
                          [@ EXCEPT !.answers = call.answers,
                                    !.status = IF call.copy.status # "synced"
                                                 THEN "synced" ELSE @,
                                    !.lastSyncedAt = "syncSingleRecord",
                                    !.syncAttempts = call.copy.syncAttempts + 1]]
             /\ event' = [event EXCEPT !.running =
                            [k \in 1..Len(@) |->
                               IF k = c THEN [@[k] EXCEPT !.pc = "done", !.outcome = "synced"]
                               ELSE IF /\ call.loaded # 0 /\ @[k].loaded = call.loaded
                                       /\ @[k].pc = "save"
                                 THEN [@[k] EXCEPT !.stale = TRUE]
                               ELSE @[k]]]
  /\ UNCHANGED <<forms, ext, retry, resync, res, webhookSecret>>

\* Response.findOne of the catch block settles (line 220): without a
\* document the failure is not recorded.
FindForCatch(c) ==
  /\ c \in 1..Len(event.running)
  /\ event.running[c].pc = "catchFind"
  /\ LET i == FindByRecordId(responses, event.running[c].recordId)
     IN event' = [event EXCEPT !.running[c] =
                    IF i = 0 THEN [@ EXCEPT !.pc = "done", !.outcome = "unrecorded"]
                    ELSE [@ EXCEPT !.pc = "catchSave", !.caught = i,
                                   !.copy = responses[i]]]
  /\ UNCHANGED <<forms, responses, ext, retry, resync, res, webhookSecret>>

\* response.save() of the catch block settles (lines 221-226): syncAttempts
\* is written, status and syncError when they differ from the copy.
SaveCatch(c) ==
  /\ c \in 1..Len(event.running)
  /\ event.running[c].pc = "catchSave"
  /\ LET call == event.running[c]
     IN responses' =
          [responses EXCEPT ![call.caught] =
             [@ EXCEPT !.status = IF call.copy.status # "failed" THEN "failed" ELSE @,
                       !.syncError = IF call.copy.syncError # call.message
                                        THEN call.message ELSE @,
                       !.syncAttempts = call.copy.syncAttempts + 1]]
  /\ event' = [event EXCEPT !.running[c] = [@ EXCEPT !.pc = "done", !.outcome = "failed"]]
  /\ UNCHANGED <<forms, ext, retry, resync, res, webhookSecret>>

\* The store before the calls: empty, or with the Response of record 1 as a
\* submission left it.
InitRace ==
  /\ forms = <<ScenarioForm>>
  /\ responses \in
       { <<>>,
         << [formId |-> 1, airtableRecordId |-> 1, status |-> "submitted",
             answers |-> <<Answer("name", Str("A"))>>,
             syncAttempts |-> 1, syncError |-> "none",
             lastSyncedAt |-> "submitResponse"] >> }
  /\ ext = [k \in 1..MaxRecordIds |-> <<Field("fldName", Str("A"))>>]
  /\ retry = NoRetry
  /\ resync = NoResync
  /\ res = NoReply
  /\ webhookSecret = ""
  /\ event = NoEvent

NextRace ==
  \/ \E recordId \in RecordIds : BeginCall(recordId)
  \/ \E c \in 1..MaxCalls, fetch \in {"ok", "null", "throw"}, f \in 1..Len(FetchedFields) :
       FetchRecord(c, fetch, IF fetch = "ok" THEN FetchedFields[f] ELSE <<>>)
  \/ \E c \in 1..MaxCalls : FindResponse(c)
  \/ \E c \in 1..MaxCalls, versionChecked \in BOOLEAN : SaveResponse(c, versionChecked)
  \/ \E c \in 1..MaxCalls : FindForCatch(c)
  \/ \E c \in 1..MaxCalls : SaveCatch(c)

SpecRace == InitRace /\ [][NextRace]_vars

\* The calls for a record, and whether all of them have returned.
CallsFor(recordId) ==
  { c \in 1..Len(event.running) : event.running[c].recordId = recordId }
AllReturned(recordId) ==
  \A c \in CallsFor(recordId) : event.running[c].pc = "done"

\* C33: when two or more calls for a record have all returned, the fetch
\* of each succeeded and the findOne of each found no Response, the store
\* holds exactly one Response for the record, with status synced and no
\* sync error.
C33_ConcurrentCreatesConverge ==
  \A recordId \in RecordIds :
    ( /\ Cardinality(CallsFor(recordId)) >= 2
      /\ AllReturned(recordId)
      /\ \A c \in CallsFor(recordId) :
           /\ event.running[c].outcome \in {"synced", "failed", "unrecorded"}
           /\ event.running[c].message # "fetchError"
           /\ event.running[c].loaded = 0 )
    => /\ Cardinality(WithRecordId(responses, recordId)) = 1
       /\ \A i \in WithRecordId(responses, recordId) :
            responses[i].status = "synced" /\ responses[i].syncError = "none"

\* C34: when the calls for a record have all returned, each with a sync or
\* a recorded failure of a Response that was stored before the calls (none
\* of them inserted it), syncAttempts of the Response is higher than the 1
\* it had before them by the number of the calls.
C34_AttemptsCountEveryCall ==
  \A recordId \in RecordIds :
    ( /\ AllReturned(recordId)
      /\ \A c \in CallsFor(recordId) :
           /\ event.running[c].outcome \in {"synced", "failed"}
           /\ \/ event.running[c].loaded # 0
              \/ event.running[c].message = "fetchError" /\ event.running[c].caught # 0 )
    => \A i \in WithRecordId(responses, recordId) :
         responses[i].syncAttempts = 1 + Cardinality(CallsFor(recordId))

(***************************************************************************)
(* Webhook signatures.  The hex digest of an HMAC-SHA256 is the symbolic   *)
(* term [key, msg] of 64 characters: two digests are equal exactly when    *)
(* key and message are.  A signature header is [present, len, key, msg]:   *)
(* absent, or a text of len characters; a text that is no digest of the    *)
(* model carries key "".                                                   *)
(***************************************************************************)
\* JSON.stringify(req.body) of a payload, as its list of tokens.
RECURSIVE StringifyIds(_)
StringifyIds(ids) ==
  IF Len(ids) = 0 THEN <<>> ELSE <<ToString(Head(ids))>> \o StringifyIds(Tail(ids))

Stringify(payload) ==
  <<"{">>
  \o (IF payload.hasBase THEN <<"base", payload.baseId>> ELSE <<>>)
  \o (IF payload.hasWebhook
        THEN <<"webhook", "action", payload.action>>
             \o (IF payload.tableId # "" THEN <<"tableId", payload.tableId>> ELSE <<>>)
             \o (IF payload.hasRecordIds
                   THEN <<"recordIds", "[">> \o StringifyIds(payload.recordIds) \o <<"]">>
                 ELSE <<>>)
      ELSE <<>>)
  \o <<"}">>

\* crypto.createHmac('sha256', secret).update(payload).digest('hex').
Hmac(secret, payload) == [present |-> TRUE, len |-> 64, key |-> secret, msg |-> payload]

\* A header that is absent, and a text of len characters that is no digest.
AbsentHeader == [present |-> FALSE, len |-> 0, key |-> "", msg |-> <<>>]
OtherText(len) == [present |-> TRUE, len |-> len, key |-> "", msg |-> <<>>]

\* A faulty verification that compares the lengths only.
verifySignatureLengthOnly(secret, payload, signature) ==
  IF secret = "" THEN "true"
  ELSE IF ~signature.present THEN "throw"
  ELSE IF signature.len # Hmac(secret, payload).len THEN "throw"
  ELSE "true"

\* verifySignature(payload, signature) (webhookSyncService.js:17-32) of a
\* service whose webhookSecret is secret ("" when unset): "true", "false",
\* or "throw" when Buffer.from (absent header) or crypto.timingSafeEqual
\* (lengths differ) raises.
verifySignature(secret, payload, signature) ==
  IF secret = "" THEN "true"
  ELSE IF ~signature.present THEN "throw"
  ELSE IF signature.len # Hmac(secret, payload).len THEN "throw"
  ELSE IF signature = Hmac(secret, payload) THEN "true"
  ELSE "false"

Reply(status, success, processed, body, signature) ==
  [op |-> "handleWebhook", status |-> status, success |-> success, processed |-> processed,
   body |-> body, signature |-> signature]

\* A faulty handler that answers 500 when the processing raises.
handleWebhookPropagates(rs, fs, secret, body, signature, envs, findOk) ==
  LET isValid == IF secret # "" THEN verifySignature(secret, Stringify(body), signature)
                 ELSE "true"
      done == processWebhook(rs, fs, body, envs, findOk)
  IN CASE isValid = "throw" -> [res |-> Reply(200, FALSE, FALSE, body, signature), rs |-> rs]
       [] isValid = "false" -> [res |-> Reply(401, FALSE, FALSE, body, signature), rs |-> rs]
       [] OTHER -> IF done.raised # "none"
                     THEN [res |-> Reply(500, FALSE, TRUE, body, signature), rs |-> done.rs]
                   ELSE [res |-> Reply(200, TRUE, TRUE, body, signature), rs |-> done.rs]

\* handleWebhook(req, res) (webhookController.js:9-44): [res, rs], the reply
\* and the store it leaves; res.processed tells whether processWebhook was called.
handleWebhook(rs, fs, secret, body, signature, envs, findOk) ==
  LET isValid == IF secret # "" THEN verifySignature(secret, Stringify(body), signature)
                 ELSE "true"
      done == processWebhook(rs, fs, body, envs, findOk)
  IN CASE isValid = "throw" -> [res |-> Reply(200, FALSE, FALSE, body, signature), rs |-> rs]
       [] isValid = "false" -> [res |-> Reply(401, FALSE, FALSE, body, signature), rs |-> rs]
       [] OTHER -> IF done.raised # "none"
                     THEN [res |-> Reply(200, FALSE, TRUE, body, signature), rs |-> done.rs]
                   ELSE [res |-> Reply(200, TRUE, TRUE, body, signature), rs |-> done.rs]

(***************************************************************************)
(* The webhook endpoint: deliveries about record 1 under each              *)
(* configuration of WEBHOOK_SECRET.                                        *)
(***************************************************************************)
Secrets == {"k1", "k2"}

DeliveredBodies ==
  { Payload(BaseId, "updatedRecords", TableId, <<1>>),
    Payload(BaseId, "deletedRecords", TableId, <<1>>),
    Payload(BaseId, "renamedTable", TableId, <<1>>),
    [Payload(BaseId, "updatedRecords", TableId, <<>>) EXCEPT !.hasBase = FALSE] }

\* The signature headers a delivery may carry: the digest of any delivered
\* body under any secret, other texts of the digest's length and of other
\* lengths (the empty text among them), and no header.
Signatures ==
  { Hmac(k, Stringify(b)) : k \in Secrets, b \in DeliveredBodies }
  \cup { OtherText(64), OtherText(10), OtherText(0), AbsentHeader }

DeliveryEnvs(payload) ==
  [1..Len(payload.recordIds) ->
     { SyncEnv(TRUE, "ok", FetchedFields[1], TRUE, TRUE),
       SyncEnv(TRUE, "throw", <<>>, TRUE, TRUE) }]

InitWebhook ==
  /\ forms = <<ScenarioForm>>
  /\ responses = <<>>
  /\ ext = <<>>
  /\ retry = NoRetry
  /\ resync = NoResync
  /\ res = NoReply
  /\ webhookSecret \in Secrets \cup {""}
  /\ event = NoEvent

\* One delivery POST /webhooks/airtable.
HandleWebhookCall(body, signature, envs, findOk) ==
  LET out == handleWebhook(responses, forms, webhookSecret, body, signature, envs, findOk)
  IN /\ responses' = out.rs
     /\ res' = out.res
     /\ AttemptsBounded(responses')
     /\ UNCHANGED <<forms, ext, retry, resync, webhookSecret, event>>

NextWebhook ==
  \E body \in DeliveredBodies, signature \in Signatures, findOk \in BOOLEAN :
    \E envs \in DeliveryEnvs(body) : HandleWebhookCall(body, signature, envs, findOk)

SpecWebhook == InitWebhook /\ [][NextWebhook]_vars

\* C7: with a secret configured, a delivery whose signature header is not the
\* HMAC-SHA256 of the payload under the secret (a wrong value of the right
\* length, a value of another length, or no header) is answered 401 and
\* processWebhook is not called.
C7_BadSignatureIs401 ==
  (/\ res.op = "handleWebhook"
   /\ webhookSecret # ""
   /\ res.signature # Hmac(webhookSecret, Stringify(res.body)))
  => (res.status = 401 /\ ~res.processed)

\* C8 as stated: in every configuration of the service, verifySignature
\* returns true only for the HMAC-SHA256 of exactly the payload it is given;
\* the digest of one payload presented with another is not accepted.
C8_OnlyTheDigestVerifies ==
  \A p1 \in DeliveredBodies, p2 \in DeliveredBodies, signature \in Signatures :
    /\ verifySignature(webhookSecret, Stringify(p1), signature) = "true"
         => \E k \in Secrets : signature = Hmac(k, Stringify(p1))
    /\ p1 # p2 =>
         \A k \in Secrets :
           verifySignature(webhookSecret, Stringify(p2), Hmac(k, Stringify(p1))) # "true"

\* C8 amended: in every configuration in which a webhook secret is set,
\* verifySignature returns true only for the HMAC-SHA256, under that secret,
\* of exactly the payload it is given; the digest of one payload presented
\* with another is not accepted.
C8_OnlyTheDigestVerifiesWithSecret ==
  webhookSecret # "" =>
    \A p1 \in DeliveredBodies, p2 \in DeliveredBodies, signature \in Signatures :
      /\ verifySignature(webhookSecret, Stringify(p1), signature) = "true"
           => signature = Hmac(webhookSecret, Stringify(p1))
      /\ p1 # p2 =>
           verifySignature(webhookSecret, Stringify(p2),
                           Hmac(webhookSecret, Stringify(p1))) # "true"

\* C8 witness: with a secret set, a delivery was verified and processed.
C8_Witness ==
  webhookSecret # "" /\ res.op = "handleWebhook" /\ res.processed /\ res.success
  /\ Len(responses) = 1

\* A payload on which processWebhook raises: no base or no webhook part, or
\* a record event without its table id or its record ids.
Malformed(payload) ==
  \/ ~payload.hasBase
  \/ ~payload.hasWebhook
  \/ /\ payload.action \in {"updatedRecords", "createdRecords", "deletedRecords"}
     /\ (payload.tableId = "" \/ ~payload.hasRecordIds)

\* C25: once a delivery has passed the signature check, an exception raised
\* by processWebhook (a malformed payload, a failure of the store) is
\* answered with HTTP 200 and success false; no verified delivery is
\* answered with a status outside 2xx.
C25_ProcessingErrorIs200 ==
  /\ (res.op = "handleWebhook" /\ res.processed) =>
       /\ res.status = 200
       /\ Malformed(res.body) => ~res.success
  /\ \A body \in DeliveredBodies, signature \in Signatures, findOk \in BOOLEAN :
       \A envs \in DeliveryEnvs(body) :
         LET out == handleWebhook(responses, forms, webhookSecret, body, signature, envs, findOk)
         IN (out.res.processed
             /\ processWebhook(responses, forms, body, envs, findOk).raised # "none") =>
              (out.res.status = 200 /\ ~out.res.success /\ out.rs = responses)

\* C25 witness: with a secret set, a delivery without a base carried the
\* digest of its body, was processed and answered 200 with success false.
C25_Witness ==
  /\ res.op = "handleWebhook"
  /\ webhookSecret # ""
  /\ res.signature = Hmac(webhookSecret, Stringify(res.body))
  /\ ~res.body.hasBase
  /\ res.processed
  /\ res.status = 200
  /\ ~res.success

\* C27: an event whose action is none of createdRecords, updatedRecords and
\* deletedRecords changes no Response and no Form, writes nothing outside,
\* and processWebhook returns without raising: the delivery is answered
\* with success.
C27_UnknownActionIsNoOp ==
  [][(/\ res'.op = "handleWebhook"
      /\ res'.processed
      /\ res'.body.hasBase /\ res'.body.hasWebhook
      /\ res'.body.action \notin {"createdRecords", "updatedRecords", "deletedRecords"})
     => (/\ responses' = responses
         /\ forms' = forms
         /\ ext' = ext
         /\ res'.status = 200
         /\ res'.success)]_vars

\* C27 witness: a delivery with the action renamedTable was processed and
\* answered with success while the store holds a Response.
C27_Witness ==
  /\ res.op = "handleWebhook"
  /\ res.body.action = "renamedTable"
  /\ res.processed
  /\ res.success
  /\ Len(responses) > 0

(***************************************************************************)
(* The full resync, syncAllRecordsForForm (webhookSyncService.js:237-309), *)
(* one step per page fetch and per record.  The external table holds the   *)
(* records 1..records and lists them pageSize at a time; a continuation    *)
(* token is the number of records already listed, 0 standing for no token. *)
(* resync = [pc, formId, records, pageSize, offset, nextOffset, page,      *)
(* fetched, syncedCount, errorCount, pageFailed]: formId is the form the   *)
(* call was made for, page the rest of the page in hand, fetched the       *)
(* tokens of the page fetches issued so far.                               *)
(***************************************************************************)
\* The external listing from a token: [records, offset], offset 0 on the last page.
ListPage(records, pageSize, offset) ==
  [records |-> [i \in 1..(Min(offset + pageSize, records) - offset) |-> offset + i],
   offset |-> IF offset + pageSize < records THEN offset + pageSize ELSE 0]

\* A faulty end of page that leaves the loop after the first page.
ResyncPageEndStops(r) == [r EXCEPT !.offset = r.nextOffset, !.pc = "done"]

\* The end of one pass of the do-while loop: offset = nextOffset; while (offset).
ResyncPageEnd(r) ==
  [r EXCEPT !.offset = r.nextOffset,
            !.pc = IF r.nextOffset # 0 THEN "fetch" ELSE "done"]

\* The outside worlds of a record sync during a resync.
ResyncEnvs ==
  { SyncEnv(TRUE, "ok", FetchedFields[1], TRUE, TRUE),
    SyncEnv(TRUE, "throw", <<>>, TRUE, TRUE) }

InitResync ==
  /\ forms = <<ScenarioForm>>
  /\ responses = <<>>
  /\ ext = <<>>
  /\ retry = NoRetry
  /\ resync = NoResync
  /\ res = NoReply
  /\ webhookSecret = ""
  /\ event = NoEvent

\* The call, up to the loop: Form.findById finds the form, active or not;
\* the call raises (and nothing happens) when the form is not found or the
\* owner's token is expired.
StartResync(formId, tokenOk, records, pageSize) ==
  /\ resync.pc = "idle"
  /\ resync' = IF formId \in 1..Len(forms) /\ tokenOk
                 THEN [NoResync EXCEPT !.pc = "fetch", !.formId = formId,
                                       !.records = records, !.pageSize = pageSize]
               ELSE resync
  /\ UNCHANGED <<forms, responses, ext, retry, res, webhookSecret, event>>

\* A faulty page fetch that counts a failure and asks for the same page again.
FetchPageRetries(ok) ==
  /\ resync.pc = "fetch"
  /\ resync' =
       LET listed == ListPage(resync.records, resync.pageSize, resync.offset)
           r == [resync EXCEPT !.fetched = Append(@, resync.offset)]
       IN IF ok THEN [r EXCEPT !.pc = "records", !.page = listed.records,
                               !.nextOffset = listed.offset]
          ELSE [r EXCEPT !.errorCount = @ + 1, !.pageFailed = TRUE]
  /\ Len(resync'.fetched) <= MaxRecords + 2
  /\ UNCHANGED <<forms, responses, ext, retry, res, webhookSecret, event>>

\* One page fetch: the page and its token on success; on failure the error
\* is counted and the loop is left.
FetchPage(ok) ==
  /\ resync.pc = "fetch"
  /\ resync' =
       LET listed == ListPage(resync.records, resync.pageSize, resync.offset)
           r == [resync EXCEPT !.fetched = Append(@, resync.offset)]
       IN IF ok THEN [r EXCEPT !.pc = "records", !.page = listed.records,
                               !.nextOffset = listed.offset]
          ELSE [r EXCEPT !.pc = "done", !.errorCount = @ + 1, !.pageFailed = TRUE]
  /\ UNCHANGED <<forms, responses, ext, retry, res, webhookSecret, event>>

\* The sync of the next record of the page, called with the base and table
\* of the form of the call; syncSingleRecord never raises, so the record is
\* counted as synced.
SyncPageRecord(env) ==
  /\ resync.pc = "records"
  /\ Len(resync.page) > 0
  /\ responses' = syncSingleRecord(responses, forms, forms[resync.formId].airtableBaseId,
                                   forms[resync.formId].airtableTableId,
                                   Head(resync.page), env)
  /\ resync' = [resync EXCEPT !.page = Tail(@), !.syncedCount = @ + 1]
  /\ UNCHANGED <<forms, ext, retry, res, webhookSecret, event>>

\* The end of the page: the next token is taken and the loop goes on or ends.
EndPage ==
  /\ resync.pc = "records"
  /\ Len(resync.page) = 0
  /\ resync' = ResyncPageEnd(resync)
  /\ UNCHANGED <<forms, responses, ext, retry, res, webhookSecret, event>>

NextResync ==
  \/ \E formId \in 1..2, tokenOk \in BOOLEAN, records \in 0..MaxRecords,
        pageSize \in 1..MaxPageSize : StartResync(formId, tokenOk, records, pageSize)
  \/ \E ok \in BOOLEAN : FetchPage(ok)
  \/ \E env \in ResyncEnvs : SyncPageRecord(env)
  \/ EndPage

SpecResync == InitResync /\ [][NextResync]_vars

(***************************************************************************)
(* Resyncs with two forms bound to the same table, the second with         *)
(* questions of its own, while deleteForm retires forms.                   *)
(***************************************************************************)
InitShared ==
  /\ forms = <<ScenarioForm,
               NewForm(BaseId, TableId,
                       <<Question("name", "fldName", "shortText", TRUE, <<>>, NoRule)>>,
                       TRUE)>>
  /\ responses = <<>>
  /\ ext = <<>>
  /\ retry = NoRetry
  /\ resync = NoResync
  /\ res = NoReply
  /\ webhookSecret = ""
  /\ event = NoEvent

NextShared ==
  \/ \E formId \in 1..2, records \in 1..MaxExt, pageSize \in 1..MaxPageSize :
       StartResync(formId, TRUE, records, pageSize)
  \/ \E ok \in BOOLEAN : FetchPage(ok)
  \/ \E env \in { SyncEnv(TRUE, "ok", FetchedFields[f], TRUE, TRUE) :
                     f \in 1..Len(FetchedFields) } : SyncPageRecord(env)
  \/ EndPage
  \/ \E id \in 1..2 : resync.pc \in {"idle", "done"} /\ DeleteFormCall(id)

SpecShared == InitShared /\ [][NextShared]_vars

\* C36: every Response a step of syncAllRecordsForForm(F) creates or
\* overwrites belongs to F and holds the answers F's questions map the
\* record's fields to.
C36_ResyncAttributesToItsForm ==
  [][ resync.pc = "records" =>
        \A i \in 1..Len(responses') :
          (i > Len(responses) \/ responses'[i] # responses[i]) =>
            /\ responses'[i].formId = resync.formId
            /\ \A a \in 1..Len(responses'[i].answers) :
                 getQuestion(forms[resync.formId], responses'[i].answers[a].questionKey) # 0
    ]_vars

\* The number of pages the external table serves its records in.
PagesOf(records, pageSize) ==
  IF records = 0 THEN 1 ELSE (records + pageSize - 1) \div pageSize

\* C9: a resync over a table served in k pages, none of whose page fetches
\* fails, has on return issued exactly k page fetches, the first without a
\* token and one for each continuation token in turn, and returns
\* syncedCount equal to the number of records of the table and errorCount 0.
C9_PagesFetchedOnceAndCounted ==
  (resync.pc = "done" /\ ~resync.pageFailed) =>
    /\ Len(resync.fetched) = PagesOf(resync.records, resync.pageSize)
    /\ \A i \in 1..Len(resync.fetched) : resync.fetched[i] = (i - 1) * resync.pageSize
    /\ resync.syncedCount = resync.records
    /\ resync.errorCount = 0

\* C9 witness: a finished resync of seven records listed three at a time:
\* three page fetches, seven records counted, every record stored as synced.
C9_Witness ==
  /\ resync.pc = "done" /\ ~resync.pageFailed
  /\ resync.records = 7 /\ resync.pageSize = 3
  /\ Len(resync.fetched) = 3 /\ resync.syncedCount = 7
  /\ Len(responses) = 7

\* C16: during a resync no page is fetched while the records of the page in
\* hand are being synced; the tokens of the page fetches issued are strictly
\* increasing, so no token is requested twice; and after a failed page fetch
\* the call is done: the failed fetch is the last one issued, errorCount is
\* 1, and syncedCount is the number of records of the pages fetched before.
C16_SequentialPagesStopOnFailure ==
  /\ [](/\ \A a \in 1..Len(resync.fetched), b \in 1..Len(resync.fetched) :
             a < b => resync.fetched[a] < resync.fetched[b]
        /\ resync.pageFailed =>
             /\ resync.pc = "done"
             /\ resync.errorCount = 1
             /\ resync.syncedCount = resync.fetched[Len(resync.fetched)]
             /\ Len(resync.page) = 0)
  /\ [][/\ Len(resync'.fetched) > Len(resync.fetched) =>
             /\ resync.pc = "fetch" /\ Len(resync.page) = 0
             /\ Len(resync'.fetched) = Len(resync.fetched) + 1
             /\ resync.syncedCount = resync.offset
        /\ resync.pageFailed => resync' = resync
        /\ resync.pc = "done" => resync' = resync]_vars

\* C16 witness: the second page fetch of a resync failed after a first page
\* of three records: two fetches issued, three records counted, one error.
C16_Witness ==
  /\ resync.pc = "done" /\ resync.pageFailed
  /\ resync.fetched = <<0, 3>>
  /\ resync.syncedCount = 3 /\ resync.errorCount = 1
  /\ resync.records = 7

\* The Responses of the store with status synced.
SyncedResponses == { i \in 1..Len(responses) : responses[i].status = "synced" }

\* C17: when a resync without a page failure has returned, syncedCount is
\* the number of listed records reconciled into a synced Response and
\* errorCount the number of listed records whose sync errored.
C17_CountsTrackOutcomes ==
  (resync.pc = "done" /\ ~resync.pageFailed) =>
    /\ resync.syncedCount = Cardinality(SyncedResponses)
    /\ resync.errorCount = resync.records - Cardinality(SyncedResponses)

(***************************************************************************)
(* The form controller: createForm, updateForm, duplicateForm, deleteForm. *)
(***************************************************************************)
\* The validators of the Form schema on the questions, run by form.save()
\* (Form.js:3-75): the enums of type, rule logic and condition operator.
FormSchemaAccepts(questions) ==
  \A i \in 1..Len(questions) :
    /\ questions[i].questionKey # "" /\ questions[i].airtableFieldId # ""
    /\ questions[i].label # ""
    /\ questions[i].type \in supportedTypes
    /\ questions[i].conditionalRules # NoRule =>
         /\ questions[i].conditionalRules.logic \in {"AND", "OR"}
         /\ \A c \in 1..Len(questions[i].conditionalRules.conditions) :
              LET condition == questions[i].conditionalRules.conditions[c]
              IN /\ condition.questionKey # ""
                 /\ condition.operator \in Operators
                 /\ condition.value.t \notin {"undef", "null"}

\* The questions the question lists of the model are made of.
NameQuestion == Question("name", "fldName", "shortText", TRUE, <<>>, NoRule)
PlanQuestion == Question("plan", "fldPlan", "singleSelect", FALSE, <<"basic", "pro">>, NoRule)
DiscountQuestion ==
  Question("discount", "fldDiscount", "shortText", FALSE, <<>>,
           Rule("AND", <<Cond("plan", "equals", Str("pro"))>>))
WithRule(question, rule) == [question EXCEPT !.conditionalRules = rule]
On(key) == Rule("OR", <<Cond(key, "equals", Str("A"))>>)

\* The question lists requests carry: acceptable ones, and ones with a
\* duplicate key, an unsupported field, a type other than the mapped type
\* of the field, a reference to a missing question,
\* an operator outside the schema's enum, a self-reference, a cycle of two
\* and of three questions, and self-references and cycles among questions
\* whose keys name properties of Object.prototype.
QuestionLists ==
  { <<>>,
    <<NameQuestion>>,
    <<NameQuestion, PlanQuestion>>,
    ScenarioQuestions,
    <<WithRule(NameQuestion, On("plan")), PlanQuestion, DiscountQuestion>>,
    <<NameQuestion, NameQuestion>>,
    <<Question("count", "fldCount", "shortText", FALSE, <<>>, NoRule)>>,
    <<NameQuestion, Question("plan", "fldPlan", "shortText", FALSE, <<>>, NoRule)>>,
    <<NameQuestion, DiscountQuestion>>,
    <<NameQuestion, WithRule(PlanQuestion, Rule("AND", <<Cond("name", "toString", Str("A"))>>))>>,
    <<WithRule(NameQuestion, On("name"))>>,
    <<NameQuestion, WithRule(PlanQuestion, On("discount")), DiscountQuestion>>,
    <<WithRule(NameQuestion, On("discount")), WithRule(PlanQuestion, On("name")),
      DiscountQuestion>>,
    <<Question("constructor", "fldName", "shortText", FALSE, <<>>, On("constructor"))>>,
    <<Question("constructor", "fldName", "shortText", FALSE, <<>>, On("name")),
      WithRule(Question("name", "fldDiscount", "shortText", FALSE, <<>>, NoRule), NoRule)>>,
    <<Question("constructor", "fldName", "shortText", FALSE, <<>>, On("valueOf")),
      Question("valueOf", "fldDiscount", "shortText", FALSE, <<>>, On("constructor"))>> }

InitForms ==
  /\ forms = <<>>
  /\ responses = <<>>
  /\ ext = <<>>
  /\ retry = NoRetry
  /\ resync = NoResync
  /\ res = NoReply
  /\ webhookSecret = ""
  /\ event = NoEvent

\* createForm (formController.js:56-172): the form is stored when the owner's
\* token is valid, the table is found and the questions pass every check.
CreateFormCall(tableId, questions, tokenOk) ==
  /\ Len(forms) < MaxForms
  /\ forms' = IF /\ tokenOk
                  /\ tableId = TableId
                  /\ QuestionsAccepted(questions)
                  /\ FormSchemaAccepts(questions)
                 THEN Append(forms, NewForm(BaseId, tableId, questions, TRUE))
               ELSE forms
  /\ UNCHANGED <<responses, ext, retry, resync, res, webhookSecret, event>>

\* The isActive and publishedAt keys a request body of updateForm can carry:
\* a function from the keys present to the value, TRUE for true or a date.
BodyFlags ==
  { <<>> } \cup { [k \in {"isActive"} |-> b] : b \in BOOLEAN }
           \cup { [k \in {"publishedAt"} |-> b] : b \in BOOLEAN }
           \cup [{"isActive", "publishedAt"} -> BOOLEAN]

\* updateForm (formController.js:222-339): an inactive form is not found;
\* questions, when the request has them, pass the checks of createForm or
\* the request is refused; then every key of the request body is copied
\* onto the form, a version, isActive or publishedAt the body carries
\* included, and the version is incremented.
UpdateFormCall(id, hasQuestions, questions, tokenOk, hasVersion, version, flags) ==
  /\ id \in 1..Len(forms)
  /\ forms[id].version < MaxVersion
  /\ forms' =
       LET copied == IF hasVersion THEN version ELSE forms[id].version
           applied == [forms[id] EXCEPT
                         !.isActive = IF "isActive" \in DOMAIN flags
                                        THEN flags["isActive"] ELSE @,
                         !.publishedAt = IF "publishedAt" \in DOMAIN flags
                                           THEN flags["publishedAt"] ELSE @,
                         !.version = copied + 1]
       IN IF ~forms[id].isActive THEN forms
          ELSE IF ~hasQuestions
            THEN [forms EXCEPT ![id] = applied]
          ELSE IF tokenOk /\ QuestionsAccepted(questions) /\ FormSchemaAccepts(questions)
            THEN [forms EXCEPT ![id] = [applied EXCEPT !.questions = questions]]
          ELSE forms
  /\ UNCHANGED <<responses, ext, retry, resync, res, webhookSecret, event>>

\* A faulty publishForm whose filter does not ask for an active form.
PublishFormCallAnyForm(id) ==
  /\ id \in 1..Len(forms)
  /\ forms' = [forms EXCEPT ![id] = [@ EXCEPT !.isActive = TRUE, !.publishedAt = TRUE]]
  /\ UNCHANGED <<responses, ext, retry, resync, res, webhookSecret, event>>

\* publishForm (formController.js:385-421): findOneAndUpdate of an active
\* form sets publishedAt; an inactive form is not found.
PublishFormCall(id) ==
  /\ id \in 1..Len(forms)
  /\ forms' = IF forms[id].isActive
                 THEN [forms EXCEPT ![id] = [@ EXCEPT !.publishedAt = TRUE]]
               ELSE forms
  /\ UNCHANGED <<responses, ext, retry, resync, res, webhookSecret, event>>

\* unpublishForm (formController.js:426-462): findOneAndUpdate of an active
\* form clears publishedAt; an inactive form is not found.
UnpublishFormCall(id) ==
  /\ id \in 1..Len(forms)
  /\ forms' = IF forms[id].isActive
                 THEN [forms EXCEPT ![id] = [@ EXCEPT !.publishedAt = FALSE]]
               ELSE forms
  /\ UNCHANGED <<responses, ext, retry, resync, res, webhookSecret, event>>

\* duplicateForm (formController.js:521-570): a copy of an active form, its
\* questions unchecked, at version 1 and without a publication date.
DuplicateFormCall(id) ==
  /\ id \in 1..Len(forms)
  /\ Len(forms) < MaxForms
  /\ forms' = IF forms[id].isActive
                 THEN Append(forms, NewForm(forms[id].airtableBaseId,
                                            forms[id].airtableTableId,
                                            forms[id].questions, FALSE))
               ELSE forms
  /\ UNCHANGED <<responses, ext, retry, resync, res, webhookSecret, event>>

NextForms ==
  \/ \E tableId \in {TableId, "table2"}, questions \in QuestionLists, tokenOk \in BOOLEAN :
       CreateFormCall(tableId, questions, tokenOk)
  \/ \E id \in 1..MaxForms, hasQuestions \in BOOLEAN, questions \in QuestionLists,
        tokenOk \in BOOLEAN, hasVersion \in BOOLEAN, version \in 0..(MaxVersion - 1) :
       UpdateFormCall(id, hasQuestions, questions, tokenOk, hasVersion, version, <<>>)
  \/ \E id \in 1..MaxForms : DuplicateFormCall(id)
  \/ \E id \in 1..MaxForms : DeleteFormCall(id)

SpecForms == InitForms /\ [][NextForms]_vars

\* The pairs <<dependent key, referenced key>> of a question list.
References(questions) ==
  UNION { { <<questions[i].questionKey,
              questions[i].conditionalRules.conditions[c].questionKey>> :
              c \in 1..Len(questions[i].conditionalRules.conditions) } :
          i \in { j \in 1..Len(questions) : questions[j].conditionalRules # NoRule } }

\* The transitive closure of a set of pairs.
RECURSIVE TransitiveClosure(_)
TransitiveClosure(R) ==
  LET step == R \cup { <<p[1][1], p[2][2]>> : p \in { q \in R \X R : q[1][2] = q[2][1] } }
  IN IF step = R THEN R ELSE TransitiveClosure(step)

\* No question depends, directly or through other questions, on itself.
RuleGraphAcyclic(questions) ==
  \A p \in TransitiveClosure(References(questions)) : p[1] # p[2]

\* C5: in every reachable state of the form controller, the rule graph of
\* every stored form is acyclic and no stored question has a condition that
\* references its own key.
C5_StoredRuleGraphsAcyclic ==
  \A f \in 1..Len(forms) :
    /\ RuleGraphAcyclic(forms[f].questions)
    /\ \A p \in References(forms[f].questions) : p[1] # p[2]

(***************************************************************************)
(* The form controller on question lists that differ in how their          *)
(* questions are bound to the fields of the table: lists whose questions   *)
(* carry the mapped type of their field, a question on the number field    *)
(* fldCount, which the mapping does not support, and a question on the     *)
(* single-select field fldPlan declared as short text.                     *)
(***************************************************************************)
NextTypes ==
  LET lists == { <<NameQuestion>>,
                 <<NameQuestion, PlanQuestion>>,
                 ScenarioQuestions,
                 <<NameQuestion, Question("count", "fldCount", "shortText", FALSE, <<>>, NoRule)>>,
                 <<NameQuestion, Question("plan", "fldPlan", "shortText", FALSE, <<>>, NoRule)>>,
                 <<Question("plan", "fldPlan", "multiSelect", FALSE, <<"basic", "pro">>, NoRule)>> }
  IN \/ \E questions \in lists, tokenOk \in BOOLEAN :
          CreateFormCall(TableId, questions, tokenOk)
     \/ \E id \in 1..MaxForms, hasQuestions \in BOOLEAN, questions \in lists,
           tokenOk \in BOOLEAN, hasVersion \in BOOLEAN, version \in 0..(MaxVersion - 1) :
          UpdateFormCall(id, hasQuestions, questions, tokenOk, hasVersion, version, <<>>)
     \/ \E id \in 1..MaxForms : DeleteFormCall(id)

SpecTypes == InitForms /\ [][NextTypes]_vars

\* The eight external field types the mapping supports.
SupportedFieldTypes ==
  {"singleLineText", "email", "url", "multilineText", "richText", "singleSelect",
   "multipleSelects", "multipleAttachments"}

\* C28: createForm and updateForm store no question bound to a field whose
\* external type is outside the eight supported ones, nor one whose declared
\* type differs from the mapped type of its field: every stored question
\* has the type its field's external type maps to.
C28_StoredTypesAreMapped ==
  \A f \in 1..Len(forms) :
    \A q \in 1..Len(forms[f].questions) :
      \E k \in 1..Len(RawFields) :
        /\ RawFields[k].id = forms[f].questions[q].airtableFieldId
        /\ RawFields[k].type \in SupportedFieldTypes
        /\ forms[f].questions[q].type = MappedType(RawFields[k].type)

\* C28 witness: an updated form holds a single-select question on the
\* single-select field.
C28_Witness ==
  \E f \in 1..Len(forms) :
    /\ forms[f].version > 1
    /\ \E q \in 1..Len(forms[f].questions) :
         /\ forms[f].questions[q].airtableFieldId = "fldPlan"
         /\ forms[f].questions[q].type = "singleSelect"

\* C30: every successful updateForm leaves the version one greater than the
\* version stored before it, whatever the body carries, so the version of a
\* form never decreases.
C30_VersionIncrementsByOne ==
  [][\A f \in 1..Len(forms) :
       /\ forms'[f].version >= forms[f].version
       /\ (forms'[f] # forms[f] /\ forms'[f].isActive = forms[f].isActive) =>
            forms'[f].version = forms[f].version + 1]_vars

(***************************************************************************)
(* detectCircularDependencies as a function of the question list.  The     *)
(* lists are all rule graphs over three questions, and over two questions  *)
(* one of which is keyed constructor: question i references the questions  *)
(* refs[i], in the order of the list.                                      *)
(***************************************************************************)
GraphQuestions(keys, refs) ==
  [i \in 1..Len(keys) |->
     LET targets == refs[i]
         nth(j) == CHOOSE t \in targets : Cardinality({u \in targets : u < t}) = j - 1
     IN Question(keys[i], "fldName", "shortText", FALSE, <<>>,
                 IF targets = {} THEN NoRule
                 ELSE Rule("OR", [j \in 1..Cardinality(targets) |->
                                    Cond(keys[nth(j)], "equals", Str("A"))]))]

GraphQuestionLists ==
  { GraphQuestions(keys, refs) :
      keys \in {<<"name", "plan", "discount">>}, refs \in [1..3 -> SUBSET (1..3)] }
  \cup { GraphQuestions(keys, refs) :
           keys \in {<<"name", "constructor">>}, refs \in [1..2 -> SUBSET (1..2)] }

\* One call detectCircularDependencies(questions): res holds the list and
\* what the call returns.
DetectCall(questions) ==
  /\ res' = [op |-> "detectCircularDependencies", questions |-> questions,
             result |-> detectCircularDependencies(questions)]
  /\ UNCHANGED <<forms, responses, ext, retry, resync, webhookSecret, event>>

NextCycles == \E questions \in GraphQuestionLists : DetectCall(questions)

SpecCycles == InitForms /\ [][NextCycles]_vars

\* The elementary cycles of a question list along the dependedOnBy edges:
\* the lists of distinct keys in which every key is referenced by the rule
\* of the next, and the last by the rule of the first.
ElementaryCycles(questions) ==
  LET keys == Range(QuestionKeys(questions))
  IN { c \in UNION { [1..k -> keys] : k \in 1..Len(questions) } :
         /\ \A a \in 1..Len(c), b \in 1..Len(c) : a # b => c[a] # c[b]
         /\ \A a \in 1..Len(c) :
              <<c[(a % Len(c)) + 1], c[a]>> \in References(questions) }

\* A returned path is an entry for a cycle when it ends with the cycle,
\* walked once around from one of its keys back to that key.
EntryFor(path, c) ==
  \E start \in 1..Len(c) :
    /\ Len(path) >= Len(c) + 1
    /\ \A a \in 0..Len(c) :
         path[Len(path) - Len(c) + a] = c[((start + a - 1) % Len(c)) + 1]

\* C19: the call returns without raising; hasCycles is true exactly when
\* the rule graph has a directed cycle, self-references included; on an
\* acyclic graph cycles is empty; and when two questions reference each
\* other, a returned cycle contains both keys.
C19_HasCyclesIffCyclic ==
  res.op = "detectCircularDependencies" =>
    /\ ~res.result.raised
    /\ res.result.hasCycles <=> ~RuleGraphAcyclic(res.questions)
    /\ RuleGraphAcyclic(res.questions) => res.result.cycles = <<>>
    /\ \A c \in ElementaryCycles(res.questions) :
         Len(c) = 2 =>
           \E e \in 1..Len(res.result.cycles) :
             Range(c) \subseteq Range(res.result.cycles[e])

\* C20: for a question list none of whose keys names a property of
\* Object.prototype, the returned cycles hold an entry for every
\* elementary cycle of the rule graph.
C20_EveryElementaryCycleReturned ==
  (/\ res.op = "detectCircularDependencies"
   /\ Range(QuestionKeys(res.questions)) \cap ObjectPrototypeKeys = {}) =>
    \A c \in ElementaryCycles(res.questions) :
      \E e \in 1..Len(res.result.cycles) : EntryFor(res.result.cycles[e], c)

\* C39: every returned cycle is a closed path of the rule graph: it ends
\* at the key it starts at, and each key of it is referenced by the rule of
\* the next, so no key of it lies outside the cycle.
C39_CyclesAreClosedPaths ==
  res.op = "detectCircularDependencies" =>
    \A e \in 1..Len(res.result.cycles) :
      LET path == res.result.cycles[e]
      IN /\ Len(path) >= 2
         /\ path[1] = path[Len(path)]
         /\ \A a \in 1..(Len(path) - 1) :
              <<path[a + 1], path[a]>> \in References(res.questions)

(***************************************************************************)
(* The rule engine called on its own: shouldShowQuestion(rules, answers)   *)
(* and validateRules(rules, availableQuestions) (conditionalLogic.js:      *)
(* 43-79, 99-140) on rules of up to MaxConditions conditions.  res holds   *)
(* the arguments of the call and what it returns.                          *)
(***************************************************************************)
\* Conditions over the answers of name, plan and constructor: each of the
\* six operators, an operator the engine does not know and one that names a
\* property of Object.prototype.
RuleConditions ==
  {Cond("name", "equals", Str("A")), Cond("name", "notEquals", Str("A")),
   Cond("name", "contains", Str("A")), Cond("name", "notContains", Str("A")),
   Cond("plan", "greaterThan", Str("5")), Cond("plan", "lessThan", Str("5")),
   Cond("plan", "notEquals", Str("10")), Cond("plan", "notContains", Str("A")),
   Cond("name", "between", Str("A")), Cond("name", "constructor", Str("A")),
   Cond("constructor", "equals", Str("A")), Cond("constructor", "notEquals", Str("A"))}

\* The absent rule and the rules of each logic over a set of conditions;
\* XOR stands for a logic that is neither AND nor OR.
RulesOver(conditions) ==
  {NoRule}
  \cup { Rule(logic, cs) : logic \in {"AND", "OR", "XOR"},
                           cs \in UNION { [1..n -> conditions] : n \in 0..MaxConditions } }

\* Each behaviour makes one call, from the state before any reply.
EvaluateCall(rules, answers) ==
  /\ res = NoReply
  /\ res' = [op |-> "shouldShowQuestion", rules |-> rules, answers |-> answers,
             result |-> shouldShowQuestion(rules, answers)]
  /\ UNCHANGED <<forms, responses, ext, retry, resync, webhookSecret, event>>

ValidateRulesCall(rules, availableQuestions) ==
  /\ res = NoReply
  /\ res' = [op |-> "validateRules", rules |-> rules,
             availableQuestions |-> availableQuestions,
             result |-> validateRules(rules, availableQuestions)]
  /\ UNCHANGED <<forms, responses, ext, retry, resync, webhookSecret, event>>

\* The answers of a request body: any of name and plan, each absent, empty,
\* null, a text or a list.  The rules handed to validateRules also carry
\* conditions without a key, with an unknown key, without an operator and
\* without a value.
NextRules ==
  \/ /\ res = NoReply
     /\ \E rules \in RulesOver(RuleConditions) :
       \E present \in SUBSET {"name", "plan"} :
         \E answers \in [present -> {Str(""), Null, Str("A"), Str("10"), Arr(<<"A">>)}] :
           EvaluateCall(rules, answers)
  \/ /\ res = NoReply
     /\ \E rules \in RulesOver({Cond("name", "equals", Str("A")),
                             Cond("plan", "lessThan", Str("")),
                             Cond("", "equals", Str("A")),
                             Cond("other", "equals", Str("A")),
                             Cond("name", "", Str("A")),
                             Cond("name", "between", Str("A")),
                             Cond("name", "constructor", Str("A")),
                             Cond("name", "equals", Null),
                             Cond("name", "equals", Undefined)}) :
       \E availableQuestions \in {<<"name", "plan">>, <<"name">>} :
         ValidateRulesCall(rules, availableQuestions)

SpecRules == InitForms /\ [][NextRules]_vars

\* C21: shouldShowQuestion returns true when the rule is absent or has no
\* conditions; under logic AND it returns true exactly when every condition
\* evaluates true, under logic OR exactly when at least one does.
C21_LogicCombinesConditions ==
  res.op = "shouldShowQuestion" =>
    LET conditions == res.rules.conditions
        holds(i) == EvalCondition(conditions[i], res.answers)
    IN /\ (res.rules = NoRule \/ Len(conditions) = 0) => res.result = TRUE
       /\ (Len(conditions) > 0 /\ res.rules.logic = "AND") =>
            (res.result <=> \A i \in 1..Len(conditions) : holds(i))
       /\ (Len(conditions) > 0 /\ res.rules.logic = "OR") =>
            (res.result <=> \E i \in 1..Len(conditions) : holds(i))

\* An OR rule of two conditions of which exactly one is true was evaluated
\* to true.
C21_Witness ==
  /\ res.op = "shouldShowQuestion"
  /\ res.rules.logic = "OR"
  /\ Len(res.rules.conditions) = 2
  /\ EvalCondition(res.rules.conditions[1], res.answers)
  /\ ~EvalCondition(res.rules.conditions[2], res.answers)
  /\ res.result = TRUE

\* C22: a condition whose referenced answer is absent, null or the empty
\* string evaluates false under each of the six operators, so an AND rule
\* with such a condition is false and an OR rule of such conditions only is
\* false.
C22_MissingAnswerIsFalse ==
  (res.op = "shouldShowQuestion" /\ res.rules # NoRule) =>
    LET conditions == res.rules.conditions
        missing(i) ==
          /\ conditions[i].operator \in Operators
          /\ \/ conditions[i].questionKey \notin DOMAIN res.answers
             \/ res.answers[conditions[i].questionKey] \in {Null, Str("")}
    IN /\ \A i \in 1..Len(conditions) :
            missing(i) => ~EvalCondition(conditions[i], res.answers)
       /\ (res.rules.logic = "AND" /\ \E i \in 1..Len(conditions) : missing(i)) =>
            res.result = FALSE
       /\ (res.rules.logic = "OR" /\ Len(conditions) > 0
           /\ \A i \in 1..Len(conditions) : missing(i)) => res.result = FALSE

\* C29: validateRules returns valid = false whenever the logic is not AND or
\* OR, the condition list is empty, or some condition references a key
\* outside availableQuestions, has an operator outside the six defined ones
\* or has no value; it returns valid = true for the absent rule and when
\* none of these holds.
C29_ValidIffWellFormed ==
  res.op = "validateRules" =>
    LET conditions == res.rules.conditions
        malformed ==
          \/ res.rules.logic \notin {"AND", "OR"}
          \/ Len(conditions) = 0
          \/ \E i \in 1..Len(conditions) :
               \/ conditions[i].questionKey \notin Range(res.availableQuestions)
               \/ conditions[i].operator \notin Operators
               \/ conditions[i].value \in {Undefined, Null}
    IN res.result <=> (res.rules = NoRule \/ ~malformed)

(***************************************************************************)
(* Submission: submitResponse (responseController.js:12-171).  A request   *)
(* body's answers are a function from the keys it carries to values; the   *)
(* entries are taken in the order of the form's questions.  The external   *)
(* table ext is the list of the field maps written to it, a record's id    *)
(* its index.                                                              *)
(***************************************************************************)
\* JavaScript truthiness of a value.
Truthy(x) ==
  CASE x.t = "str" -> x.v[1] # ""
    [] x.t = "num" -> LET n == ToNumberChars(Chars(x.v[1])) IN ~n.nan /\ n.n # 0
    [] x.t \in {"arr", "fn"} -> TRUE
    [] OTHER -> FALSE

\* form.validateAnswer(questionKey, answer).isValid (Form.js:175-215), for
\* questions without validationRules.
validateAnswer(form, questionKey, answer) ==
  LET q == getQuestion(form, questionKey)
  IN IF q = 0 THEN FALSE
     ELSE IF form.questions[q].required /\ IsMissing(answer) THEN FALSE
     ELSE CASE form.questions[q].type = "singleSelect" ->
                 ~(Truthy(answer)
                   /\ ~(answer.t = "str"
                        /\ \E o \in 1..Len(form.questions[q].options) :
                             form.questions[q].options[o] = answer.v[1]))
            [] form.questions[q].type = "multiSelect" ->
                 ~(Truthy(answer)
                   /\ (answer.t # "arr"
                       \/ \E v \in 1..Len(answer.v) :
                            answer.v[v] \notin Range(form.questions[q].options)))
            [] form.questions[q].type \in {"shortText", "longText"} ->
                 ~(Truthy(answer) /\ answer.t # "str")
            [] OTHER -> TRUE

\* The validation errors of a submission (responseController.js:35-68):
\* a required question without an answer, an answer to no question of the
\* form, an answer its question refuses.
SubmissionInvalid(form, answers) ==
  \/ \E i \in 1..Len(form.questions) :
       form.questions[i].required /\ IsMissing(Lookup(answers, form.questions[i].questionKey))
  \/ \E key \in DOMAIN answers :
       getQuestion(form, key) = 0 \/ ~validateAnswer(form, key, answers[key])

\* A faulty filter that keeps the answers of hidden questions.
ProcessedAnswersKeepHidden(form, answers) ==
  LET kept == { i \in 1..Len(form.questions) : form.questions[i].questionKey \in DOMAIN answers }
      F[i \in 0..Len(form.questions)] ==
        IF i = 0 THEN <<>>
        ELSE IF i \in kept
          THEN Append(F[i - 1], Answer(form.questions[i].questionKey,
                                       answers[form.questions[i].questionKey]))
        ELSE F[i - 1]
  IN F[Len(form.questions)]

\* processedAnswers (responseController.js:48-87): the answers of the
\* questions whose rule, if any, shows them against the submitted answers.
ProcessedAnswers(form, answers) ==
  LET kept == { i \in 1..Len(form.questions) :
                  /\ form.questions[i].questionKey \in DOMAIN answers
                  /\ (form.questions[i].conditionalRules # NoRule =>
                        shouldShowQuestion(form.questions[i].conditionalRules, answers)) }
      F[i \in 0..Len(form.questions)] ==
        IF i = 0 THEN <<>>
        ELSE IF i \in kept
          THEN Append(F[i - 1], Answer(form.questions[i].questionKey,
                                       answers[form.questions[i].questionKey]))
        ELSE F[i - 1]
  IN F[Len(form.questions)]

\* airtableFields of a list of answers (responseController.js:105-111,
\* airtableService.js:251-257): one field per answer whose question exists.
RECURSIVE AnswersToFields(_, _, _)
AnswersToFields(form, answers, i) ==
  IF i > Len(answers) THEN <<>>
  ELSE LET q == getQuestion(form, answers[i].questionKey)
       IN (IF q # 0 THEN <<Field(form.questions[q].airtableFieldId, answers[i].value)>>
           ELSE <<>>)
          \o AnswersToFields(form, answers, i + 1)

\* A faulty handler that gives up when the external create fails.
submitResponseLosesFailed(rs, ex, fs, formId, answers, createOk) ==
  IF formId \notin 1..Len(fs) \/ ~fs[formId].isActive \/ ~fs[formId].publishedAt
    THEN [status |-> 404, rs |-> rs, ext |-> ex]
  ELSE IF SubmissionInvalid(fs[formId], answers)
    THEN [status |-> 400, rs |-> rs, ext |-> ex]
  ELSE IF ~createOk THEN [status |-> 500, rs |-> rs, ext |-> ex]
  ELSE LET airtableFields ==
             AnswersToFields(fs[formId], ProcessedAnswers(fs[formId], answers), 1)
       IN [status |-> 201,
           rs |-> Append(rs, [formId |-> formId, airtableRecordId |-> Len(ex) + 1,
                              status |-> "submitted",
                              answers |-> ProcessedAnswers(fs[formId], answers),
                              syncAttempts |-> 1, syncError |-> "none",
                              lastSyncedAt |-> "submitResponse"]),
           ext |-> Append(ex, airtableFields)]

\* submitResponse: [status, rs, ext], the HTTP status and the stores it
\* leaves.  createOk: the external create succeeds.
submitResponse(rs, ex, fs, formId, answers, createOk) ==
  IF formId \notin 1..Len(fs) \/ ~fs[formId].isActive \/ ~fs[formId].publishedAt
    THEN [status |-> 404, rs |-> rs, ext |-> ex]
  ELSE IF SubmissionInvalid(fs[formId], answers)
    THEN [status |-> 400, rs |-> rs, ext |-> ex]
  ELSE LET processedAnswers == ProcessedAnswers(fs[formId], answers)
           airtableFields == AnswersToFields(fs[formId], processedAnswers, 1)
           doc == [formId |-> formId,
                   airtableRecordId |-> IF createOk THEN Len(ex) + 1 ELSE -(Len(rs) + 1),
                   status |-> IF createOk THEN "submitted" ELSE "failed",
                   answers |-> processedAnswers,
                   syncAttempts |-> 1,
                   syncError |-> IF createOk THEN "none" ELSE "createError",
                   lastSyncedAt |-> IF createOk THEN "submitResponse" ELSE "null"]
       IN IF ~UniqueIndexAllows(rs, doc)
            THEN [status |-> 500, rs |-> rs,
                  ext |-> IF createOk THEN Append(ex, airtableFields) ELSE ex]
          ELSE [status |-> 201, rs |-> Append(rs, doc),
                ext |-> IF createOk THEN Append(ex, airtableFields) ELSE ex]

\* The answers of the submissions of the model: name absent or "A"; plan
\* absent, an option, or no option; discount absent, a text or a number;
\* and one submission with an answer to no question of the form.
SubmittedAnswers ==
  LET names == {Undefined, Str("A")}
      plans == {Undefined, Str("basic"), Str("pro"), Str("A")}
      discounts == {Undefined, Str("5"), Num("5")}
      Body(n, p, d) ==
        [k \in ({"name" : x \in {n} \ {Undefined}}
                \cup {"plan" : x \in {p} \ {Undefined}}
                \cup {"discount" : x \in {d} \ {Undefined}}) |->
           CASE k = "name" -> n [] k = "plan" -> p [] OTHER -> d]
  IN { Body(n, p, d) : n \in names, p \in plans, d \in discounts }
     \cup { [k \in {"name", "other"} |-> Str("A")] }

InitSubmit ==
  /\ forms = <<ScenarioForm, [ScenarioForm EXCEPT !.publishedAt = FALSE]>>
  /\ responses = <<>>
  /\ ext = <<>>
  /\ retry = NoRetry
  /\ resync = NoResync
  /\ res = NoReply
  /\ webhookSecret = ""
  /\ event = NoEvent

\* One request POST /responses/:formId.
SubmitResponseCall(formId, answers, createOk) ==
  LET out == submitResponse(responses, ext, forms, formId, answers, createOk)
  IN /\ responses' = out.rs
     /\ ext' = out.ext
     /\ res' = [op |-> "submitResponse", status |-> out.status,
                success |-> out.status = 201, processed |-> FALSE,
                body |-> answers, signature |-> <<>>]
     /\ UNCHANGED <<forms, retry, resync, webhookSecret, event>>

NextSubmit ==
  \E formId \in 1..3, answers \in SubmittedAnswers, createOk \in BOOLEAN :
    /\ Len(responses) < MaxSubmissions
    /\ SubmitResponseCall(formId, answers, createOk)

SpecSubmit == InitSubmit /\ [][NextSubmit]_vars

(***************************************************************************)
(* Submissions to forms whose rules gate other rules: a form whose         *)
(* discount question is required and shown for plan = pro, and a form      *)
(* whose plan question is shown for name = basic and whose discount        *)
(* question is shown for plan = pro.                                       *)
(***************************************************************************)
InitGated ==
  /\ forms =
       << NewForm(BaseId, TableId,
                  <<NameQuestion, PlanQuestion, [DiscountQuestion EXCEPT !.required = TRUE]>>,
                  TRUE),
          NewForm(BaseId, TableId,
                  <<NameQuestion,
                    WithRule(PlanQuestion, Rule("AND", <<Cond("name", "equals", Str("basic"))>>)),
                    DiscountQuestion>>,
                  TRUE) >>
  /\ responses = <<>>
  /\ ext = <<>>
  /\ retry = NoRetry
  /\ resync = NoResync
  /\ res = NoReply
  /\ webhookSecret = ""
  /\ event = NoEvent

NextGated ==
  \E formId \in 1..2, answers \in SubmittedAnswers, createOk \in BOOLEAN :
    /\ Len(responses) < MaxSubmissions
    /\ SubmitResponseCall(formId, answers, createOk)

SpecGated == InitGated /\ [][NextGated]_vars

\* C37: in every reachable state, a submission to a published form that
\* leaves out a required question whose rule evaluates false against the
\* submitted answers, and that is valid otherwise (every required question
\* in effect is answered, every answer is to a question of the form and
\* passes its validation), is not refused with 400.
C37_HiddenRequiredNotDemanded ==
  \A formId \in 1..Len(forms), answers \in SubmittedAnswers :
    LET form == forms[formId]
        InEffect(i) ==
          form.questions[i].conditionalRules = NoRule
          \/ shouldShowQuestion(form.questions[i].conditionalRules, answers)
        Unanswered(i) == IsMissing(Lookup(answers, form.questions[i].questionKey))
    IN ( /\ form.isActive /\ form.publishedAt
         /\ \E i \in 1..Len(form.questions) :
              form.questions[i].required /\ ~InEffect(i) /\ Unanswered(i)
         /\ \A i \in 1..Len(form.questions) :
              (form.questions[i].required /\ InEffect(i)) => ~Unanswered(i)
         /\ \A key \in DOMAIN answers :
              getQuestion(form, key) # 0 /\ validateAnswer(form, key, answers[key]) )
       => submitResponse(responses, ext, forms, formId, answers, TRUE).status # 400

\* C38: in every reachable state, every answer of a stored Response is to
\* a question without a rule or to one whose rule evaluates true against
\* the answers of that Response alone.
C38_KeptAnswersSelfConsistent ==
  \A r \in 1..Len(responses) :
    LET form == forms[responses[r].formId]
        kept == [key \in { responses[r].answers[a].questionKey :
                             a \in 1..Len(responses[r].answers) } |->
                   (CHOOSE a \in Range(responses[r].answers) : a.questionKey = key).value]
    IN \A a \in 1..Len(responses[r].answers) :
         LET q == getQuestion(form, responses[r].answers[a].questionKey)
         IN /\ q # 0
            /\ form.questions[q].conditionalRules # NoRule =>
                 shouldShowQuestion(form.questions[q].conditionalRules, kept)

(***************************************************************************)
(* The lifecycle of a form: createForm, publishForm, unpublishForm,        *)
(* updateForm with bodies that carry isActive and publishedAt, deleteForm, *)
(* and submissions to every form id.                                       *)
(***************************************************************************)
NextLifecycle ==
  \/ CreateFormCall(TableId, <<NameQuestion>>, TRUE)
  \/ \E id \in 1..MaxForms : PublishFormCall(id)
  \/ \E id \in 1..MaxForms : UnpublishFormCall(id)
  \/ \E id \in 1..MaxForms, flags \in BodyFlags :
       UpdateFormCall(id, FALSE, <<>>, TRUE, FALSE, 0, flags)
  \/ \E id \in 1..MaxForms : DeleteFormCall(id)
  \/ \E formId \in 1..MaxForms :
       /\ Len(responses) < MaxSubmissions
       /\ SubmitResponseCall(formId, [k \in {"name"} |-> Str("A")], TRUE)

SpecLifecycle == InitForms /\ [][NextLifecycle]_vars

\* C31: in every step, a Response is added only for a form that is active
\* and published before the step; a form that is not active stays exactly
\* as it is, so it stays inactive whatever publishForm, unpublishForm,
\* updateForm or submitResponse calls follow, and gets no Response; and
\* every Response stored before the step is stored unchanged after it.
C31_RetiredFormStaysClosed ==
  [][ /\ Len(responses') >= Len(responses)
      /\ \A i \in 1..Len(responses) : responses'[i] = responses[i]
      /\ \A i \in (Len(responses) + 1)..Len(responses') :
           /\ responses'[i].formId \in 1..Len(forms)
           /\ forms[responses'[i].formId].isActive
           /\ forms[responses'[i].formId].publishedAt
      /\ \A id \in 1..Len(forms) :
           ~forms[id].isActive => /\ Len(forms') >= id
                                  /\ forms'[id] = forms[id] ]_vars

\* C31 witness: every form of the model was retired by deleteForm (its
\* version is still 1, so no updateForm touched it), a publishForm could not
\* reopen it, a Response submitted before is still stored, and the last
\* submission was refused with 404.
C31_Witness ==
  /\ Len(forms) = MaxForms
  /\ \A id \in 1..Len(forms) :
       ~forms[id].isActive /\ ~forms[id].publishedAt /\ forms[id].version = 1
  /\ Len(responses) > 0
  /\ res.op = "submitResponse" /\ res.status = 404

\* C15: in every reachable state, a submission to a published form that
\* passes validation and whose external create fails is answered with 201
\* and adds exactly one Response to the store: it holds the processed
\* answers, has status failed, carries the error text and a local
\* placeholder id, and nothing else of the store or of the external table
\* changes; and the Response the last accepted request stored holds the
\* processed answers of that request.
C15_FailedCreateStillStored ==
  /\ \A formId \in 1..Len(forms), answers \in SubmittedAnswers :
       (forms[formId].isActive /\ forms[formId].publishedAt
        /\ ~SubmissionInvalid(forms[formId], answers)) =>
         LET out == submitResponse(responses, ext, forms, formId, answers, FALSE)
         IN /\ out.status = 201
            /\ out.ext = ext
            /\ Len(out.rs) = Len(responses) + 1
            /\ SubSeq(out.rs, 1, Len(responses)) = responses
            /\ LET r == out.rs[Len(out.rs)]
               IN /\ r.formId = formId
                  /\ r.status = "failed"
                  /\ r.syncError = "createError"
                  /\ r.answers = ProcessedAnswers(forms[formId], answers)
                  /\ IsPlaceholder(r.airtableRecordId)
                  /\ \A i \in 1..Len(responses) :
                       responses[i].airtableRecordId # r.airtableRecordId
  /\ (res.op = "submitResponse" /\ res.status = 201) =>
       responses[Len(responses)].answers =
         ProcessedAnswers(forms[responses[Len(responses)].formId], res.body)

\* C15 witness: the last request was answered 201 although its external
\* create failed: its Response is stored failed with the error text, and
\* the external table holds no record of it.
C15_Witness ==
  /\ res.op = "submitResponse" /\ res.status = 201
  /\ Len(responses) = 2
  /\ responses[2].status = "failed" /\ responses[2].syncError = "createError"
  /\ IsPlaceholder(responses[2].airtableRecordId)
  /\ Len(responses[2].answers) = 2
  /\ Len(ext) = 1

\* The questions of a form hidden by their rule under the submitted answers.
HiddenQuestions(form, answers) ==
  { i \in 1..Len(form.questions) :
      /\ form.questions[i].conditionalRules # NoRule
      /\ ~shouldShowQuestion(form.questions[i].conditionalRules, answers) }

\* C6: after an accepted submission, the Response it stored holds no answer
\* for a question whose rule evaluates false against the submitted answers,
\* and the record it wrote to the external table holds no field of such a
\* question, whether or not the client supplied an answer for it.
C6_HiddenAnswersDropped ==
  (res.op = "submitResponse" /\ res.status = 201) =>
    LET r == responses[Len(responses)]
        form == forms[r.formId]
    IN \A i \in HiddenQuestions(form, res.body) :
         /\ \A a \in 1..Len(r.answers) :
              r.answers[a].questionKey # form.questions[i].questionKey
         /\ ~IsPlaceholder(r.airtableRecordId) =>
              \A f \in 1..Len(ext[r.airtableRecordId]) :
                ext[r.airtableRecordId][f].field # form.questions[i].airtableFieldId

\* C6 witness: the submission {name: "A", plan: "basic", discount: "5"} was
\* accepted and written to the external table, and neither the stored
\* Response nor the written record carries the discount.
C6_Witness ==
  /\ res.op = "submitResponse" /\ res.status = 201
  /\ DOMAIN res.body = {"name", "plan", "discount"}
  /\ res.body["plan"] = Str("basic") /\ res.body["discount"] = Str("5")
  /\ LET r == responses[Len(responses)]
     IN /\ r.status = "submitted"
        /\ r.answers = <<Answer("name", Str("A")), Answer("plan", Str("basic"))>>
        /\ ext[r.airtableRecordId] = <<Field("fldName", Str("A")), Field("fldPlan", Str("basic"))>>

(***************************************************************************)
(* The outbound push, AirtableService.syncResponseToAirtable               *)
(* (airtableService.js:237-294).  env = [tokenOk, writeOk]: the owner has  *)
(* an unexpired token; the external create or update succeeds.             *)
(***************************************************************************)
\* A faulty update that keeps the old error text on success.
updateSyncStatusKeepsError(response, success, error) ==
  [response EXCEPT !.lastSyncedAt = "updateSyncStatus",
                   !.syncAttempts = @ + 1,
                   !.status = IF success THEN "synced" ELSE "failed",
                   !.syncError = IF success THEN @ ELSE error]

\* A faulty update that does not count a failed attempt.
updateSyncStatusUncountedFailure(response, success, error) ==
  [response EXCEPT !.lastSyncedAt = "updateSyncStatus",
                   !.syncAttempts = IF success THEN @ + 1 ELSE @,
                   !.status = IF success THEN "synced" ELSE "failed",
                   !.syncError = IF success THEN "none" ELSE error]

\* response.updateSyncStatus(success, error) (Form.js:439-452).
updateSyncStatus(response, success, error) ==
  [response EXCEPT !.lastSyncedAt = "updateSyncStatus",
                   !.syncAttempts = @ + 1,
                   !.status = IF success THEN "synced" ELSE "failed",
                   !.syncError = IF success THEN "none" ELSE error]

PushEnvs ==
  { [tokenOk |-> TRUE, writeOk |-> TRUE], [tokenOk |-> TRUE, writeOk |-> FALSE],
    [tokenOk |-> FALSE, writeOk |-> TRUE] }

\* [raised, rs, ext]: whether the call raised, and the stores it leaves.  An
\* external update succeeds only on a record the external table holds.
syncResponseToAirtable(rs, ex, fs, responseId, env) ==
  IF responseId \notin 1..Len(rs) \/ rs[responseId].status = "deleted"
    THEN [raised |-> TRUE, rs |-> rs, ext |-> ex]
  ELSE IF ~env.tokenOk THEN [raised |-> TRUE, rs |-> rs, ext |-> ex]
  ELSE LET response == rs[responseId]
           form == fs[response.formId]
           airtableFields == AnswersToFields(form, response.answers, 1)
       IN IF response.status \in {"submitted", "failed"}
            THEN IF env.writeOk
                   THEN [raised |-> FALSE,
                         rs |-> [rs EXCEPT ![responseId] =
                                   updateSyncStatus([response EXCEPT
                                                       !.airtableRecordId = Len(ex) + 1],
                                                    TRUE, "none")],
                         ext |-> Append(ex, airtableFields)]
                 ELSE [raised |-> TRUE,
                       rs |-> [rs EXCEPT ![responseId] =
                                 updateSyncStatus(response, FALSE, "createError")],
                       ext |-> ex]
          ELSE IF env.writeOk /\ response.airtableRecordId \in 1..Len(ex)
            THEN [raised |-> FALSE,
                  rs |-> [rs EXCEPT ![responseId] = updateSyncStatus(response, TRUE, "none")],
                  ext |-> [ex EXCEPT ![response.airtableRecordId] = airtableFields]]
          ELSE [raised |-> TRUE,
                rs |-> [rs EXCEPT ![responseId] =
                          updateSyncStatus(response, FALSE, "updateError")],
                ext |-> ex]

(***************************************************************************)
(* The retry scan, retryFailedSyncs(limit) (webhookSyncService.js:314-355),*)
(* one step for the query and one per selected Response.  retry = [pc,     *)
(* queue, limit]: queue is the rest of the selected Responses, in the      *)
(* order of the store.                                                     *)
(***************************************************************************)
\* A faulty filter that also selects a Response with maxRetries attempts.
EligibleUpToCap(response) ==
  response.status = "failed" /\ response.syncAttempts <= maxRetries

\* The filter of the query: status failed and syncAttempts < maxRetries.
Eligible(response) ==
  response.status = "failed" /\ response.syncAttempts < maxRetries

\* A faulty query that returns one match fewer than the limit allows.
RECURSIVE FindFailedBelowLimit(_, _, _)
FindFailedBelowLimit(rs, i, limit) ==
  IF i > Len(rs) \/ limit <= 1 THEN <<>>
  ELSE IF rs[i].status = "failed" /\ rs[i].syncAttempts < maxRetries
    THEN <<i>> \o FindFailedBelowLimit(rs, i + 1, limit - 1)
  ELSE FindFailedBelowLimit(rs, i + 1, limit)

\* Response.find(filter).limit(limit), limit >= 1: the first limit matches.
RECURSIVE FindFailed(_, _, _)
FindFailed(rs, i, limit) ==
  IF i > Len(rs) \/ limit = 0 THEN <<>>
  ELSE IF Eligible(rs[i]) THEN <<i>> \o FindFailed(rs, i + 1, limit - 1)
  ELSE FindFailed(rs, i + 1, limit)

\* The query of a scan.
RetryStart(limit) ==
  /\ retry.pc = "idle"
  /\ retry' = [pc |-> "scan", queue |-> FindFailed(responses, 1, limit), limit |-> limit]
  /\ UNCHANGED <<forms, responses, ext, resync, res, webhookSecret, event>>

\* One pass of the loop: the next selected Response is pushed, unless its
\* form is gone or the owner's token is expired; a raising push is counted
\* and the loop goes on.
RetryStep(env) ==
  /\ retry.pc = "scan"
  /\ Len(retry.queue) > 0
  /\ LET response == responses[Head(retry.queue)]
         out == syncResponseToAirtable(responses, ext, forms, Head(retry.queue), env)
     IN IF response.formId \notin 1..Len(forms) \/ ~env.tokenOk
          THEN UNCHANGED <<responses, ext>>
        ELSE responses' = out.rs /\ ext' = out.ext
  /\ PushAttemptsBounded(responses')
  /\ retry' = [retry EXCEPT !.queue = Tail(@)]
  /\ UNCHANGED <<forms, resync, res, webhookSecret, event>>

\* The return of the scan.
RetryEnd ==
  /\ retry.pc = "scan"
  /\ Len(retry.queue) = 0
  /\ retry' = NoRetry
  /\ UNCHANGED <<forms, responses, ext, resync, res, webhookSecret, event>>

\* syncResponse (responseController.js:609-654): the manual push of one
\* Response by the owner of its form.
SyncResponseCall(responseId, env) ==
  LET out == syncResponseToAirtable(responses, ext, forms, responseId, env)
  IN /\ IF responseId \notin 1..Len(responses) THEN UNCHANGED <<responses, ext>>
        ELSE IF ~forms[responses[responseId].formId].isActive THEN UNCHANGED <<responses, ext>>
        ELSE responses' = out.rs /\ ext' = out.ext
     /\ PushAttemptsBounded(responses')
     /\ UNCHANGED <<forms, retry, resync, res, webhookSecret, event>>

\* The submissions of the retry and outbound specifications.
OutboundAnswers == { [k \in {"name", "plan"} |-> IF k = "name" THEN Str("A") ELSE Str("basic")] }

InitRetry ==
  /\ forms = <<ScenarioForm>>
  /\ responses = <<>>
  /\ ext = <<>>
  /\ retry = NoRetry
  /\ resync = NoResync
  /\ res = NoReply
  /\ webhookSecret = ""
  /\ event = NoEvent

\* A submission while the store has room.
SubmitOutbound(createOk) ==
  /\ Len(responses) < MaxResponses
  /\ \E answers \in OutboundAnswers : SubmitResponseCall(1, answers, createOk)

NextRetry ==
  \/ \E createOk \in BOOLEAN : SubmitOutbound(createOk)
  \/ \E limit \in 1..MaxLimit : RetryStart(limit)
  \/ \E env \in PushEnvs : RetryStep(env)
  \/ RetryEnd
  \/ \E responseId \in 1..MaxResponses, env \in PushEnvs : SyncResponseCall(responseId, env)

SpecRetry == InitRetry /\ [][NextRetry]_vars

\* A failed Response that used up its retries.
Exhausted(response) ==
  response.status = "failed" /\ response.syncAttempts >= maxRetries

NextRecover ==
  \/ \E createOk \in BOOLEAN :
       /\ Len(responses) < MaxRecoverResponses
       /\ \E answers \in OutboundAnswers : SubmitResponseCall(1, answers, createOk)
  \/ \E recordId \in RecordIds, env \in SuccessEnvs \cup {SyncEnv(TRUE, "throw", <<>>, TRUE, TRUE)} :
       /\ recordId \in 1..Len(ext)
       /\ SyncSingleRecordCall(recordId, env)
       /\ PushAttemptsBounded(responses')
  \/ \E limit \in 1..MaxLimit : RetryStart(limit)
  \/ \E env \in PushEnvs : RetryStep(env) /\ Len(ext') <= MaxExt
  \/ RetryEnd

SpecRecover == InitRetry /\ [][NextRecover]_vars

\* The Responses a scan with a limit as large as the store would select.
Selected(rs) == Range(FindFailed(rs, 1, Len(rs) + 1))

\* C14 as stated: a Response that was not failed and becomes failed, by a
\* submission whose external create fails, by a push whose external write
\* fails or by an inbound sync that errors, is selected by the next scan
\* when the limit is large enough.
C14_NewlyFailedIsSelected ==
  /\ \A answers \in OutboundAnswers :
       LET out == submitResponse(responses, ext, forms, 1, answers, FALSE)
       IN out.status = 201 => Len(out.rs) \in Selected(out.rs)
  /\ \A i \in 1..Len(responses) :
       responses[i].status \notin {"failed", "deleted"} =>
         /\ LET out == syncResponseToAirtable(responses, ext, forms, i,
                                              [tokenOk |-> TRUE, writeOk |-> FALSE])
            IN i \in Selected(out.rs)
         /\ ~IsPlaceholder(responses[i].airtableRecordId) =>
              LET after == syncSingleRecord(responses, forms, BaseId, TableId,
                                            responses[i].airtableRecordId,
                                            SyncEnv(TRUE, "throw", <<>>, TRUE, TRUE))
              IN i \in Selected(after)

\* C14 amended: a Response that becomes failed by a submission whose
\* external create fails is selected by the next scan; one that becomes
\* failed by a failing push or a failing inbound sync is selected exactly
\* when the attempt counted for the failure leaves its counter below
\* maxRetries; a scan selects every failed Response below maxRetries when
\* its limit allows, and its pass for a selected Response attempts a push
\* whenever the owner's token is valid.
C14_FailedBelowCapIsSelected ==
  /\ [](/\ \A answers \in OutboundAnswers :
            LET out == submitResponse(responses, ext, forms, 1, answers, FALSE)
            IN out.status = 201 /\ Len(out.rs) \in Selected(out.rs)
        /\ \A i \in 1..Len(responses) :
             responses[i].status # "deleted" =>
               /\ LET out == syncResponseToAirtable(responses, ext, forms, i,
                                                    [tokenOk |-> TRUE, writeOk |-> FALSE])
                  IN /\ out.raised /\ out.rs[i].status = "failed"
                     /\ i \in Selected(out.rs) <=> responses[i].syncAttempts + 1 < maxRetries
               /\ ~IsPlaceholder(responses[i].airtableRecordId) =>
                    LET after == syncSingleRecord(responses, forms, BaseId, TableId,
                                                  responses[i].airtableRecordId,
                                                  SyncEnv(TRUE, "throw", <<>>, TRUE, TRUE))
                    IN /\ after[i].status = "failed"
                       /\ i \in Selected(after) <=> responses[i].syncAttempts + 1 < maxRetries
        /\ (retry.pc = "scan" /\ Len(retry.queue) > 0) =>
             \A env \in { e \in PushEnvs : e.tokenOk } :
               LET h == Head(retry.queue)
                   out == syncResponseToAirtable(responses, ext, forms, h, env)
               IN out.rs[h].syncAttempts = responses[h].syncAttempts + 1)
  /\ [][(retry.pc = "idle" /\ retry'.pc = "scan") =>
          /\ Range(retry'.queue) \subseteq Selected(responses)
          /\ Cardinality(Selected(responses)) <= retry'.limit =>
               Range(retry'.queue) = Selected(responses)]_vars

\* C14 witness: a scan is under way that selected a Response whose inbound
\* sync had failed.
C14_Witness ==
  /\ retry.pc = "scan"
  /\ \E i \in Range(retry.queue) :
       responses[i].status = "failed" /\ responses[i].syncError = "fetchError"

\* C13 as stated: every push that does not raise leaves the Response synced
\* with the error cleared, and every push that raises leaves the Response
\* failed with the error recorded.
C13_EveryRaisingPushMarksFailed ==
  \A responseId \in 1..Len(responses), env \in PushEnvs :
    LET out == syncResponseToAirtable(responses, ext, forms, responseId, env)
    IN IF out.raised
         THEN out.rs[responseId].status = "failed" /\ out.rs[responseId].syncError # "none"
       ELSE out.rs[responseId].status = "synced" /\ out.rs[responseId].syncError = "none"

\* C13 amended: a push that does not raise leaves the Response synced, the
\* error cleared and one more attempt counted; a push whose external create
\* or update fails leaves the Response failed with the error text and one
\* more attempt counted, and raises; a push that raises before the external
\* write (the Response is deleted, or the owner's token is expired) leaves
\* the Response as it was.  No push touches another Response.
C13_PushOutcomeRecorded ==
  \A responseId \in 1..Len(responses), env \in PushEnvs :
    LET out == syncResponseToAirtable(responses, ext, forms, responseId, env)
        before == responses[responseId]
        after == out.rs[responseId]
    IN /\ Len(out.rs) = Len(responses)
       /\ \A i \in 1..Len(responses) : i # responseId => out.rs[i] = responses[i]
       /\ IF ~out.raised
            THEN /\ after.status = "synced" /\ after.syncError = "none"
                 /\ after.syncAttempts = before.syncAttempts + 1
                 /\ ~IsPlaceholder(after.airtableRecordId)
          ELSE IF before.status = "deleted" \/ ~env.tokenOk
            THEN after = before /\ out.ext = ext
          ELSE /\ after.status = "failed"
               /\ after.syncError \in {"createError", "updateError"}
               /\ after.syncAttempts = before.syncAttempts + 1
               /\ after.airtableRecordId = before.airtableRecordId
               /\ out.ext = ext

\* C13 witness: one Response was pushed with success after a failed create
\* (synced, error cleared, a record id of the external table), another was
\* pushed and failed (failed, the error recorded, attempts counted).
C13_Witness ==
  \E i \in 1..Len(responses), j \in 1..Len(responses) :
    /\ responses[i].status = "synced" /\ responses[i].syncError = "none"
    /\ responses[i].syncAttempts >= 2 /\ ~IsPlaceholder(responses[i].airtableRecordId)
    /\ responses[j].status = "failed" /\ responses[j].syncError = "createError"
    /\ responses[j].syncAttempts >= 2

(***************************************************************************)
(* Submissions and retry scans alone, forms and credentials available: the *)
(* scans are run again and again, and the loop of a scan goes on to its    *)
(* end, each await of it settling.                                         *)
(***************************************************************************)
NextSettle ==
  \/ \E createOk \in BOOLEAN : SubmitOutbound(createOk)
  \/ \E limit \in 1..MaxLimit : RetryStart(limit)
  \/ \E writeOk \in BOOLEAN : RetryStep([tokenOk |-> TRUE, writeOk |-> writeOk])
  \/ RetryEnd

SpecSettle ==
  /\ InitRetry /\ [][NextSettle]_vars
  /\ WF_vars(\E limit \in 1..MaxLimit : RetryStart(limit))
  /\ WF_vars(\E writeOk \in BOOLEAN : RetryStep([tokenOk |-> TRUE, writeOk |-> writeOk]))
  /\ WF_vars(RetryEnd)

C32_OneRecordPerResponse ==
  [][ \A i \in 1..Len(responses) :
        responses[i].airtableRecordId \in 1..Len(ext) =>
          ~(/\ Len(ext') > Len(ext)
            /\ responses'[i].airtableRecordId = Len(ext')) ]_vars

(***************************************************************************)
(* The outbound side as the owner of a form drives it: submissions, manual *)
(* pushes and updateResponse (responseController.js:335-425).  updates =   *)
(* [hasAnswers, answers, status, hasSyncAttempts, syncAttempts]: status "" *)
(* when the request carries none.                                          *)
(***************************************************************************)
Updates(hasAnswers, answers, status, hasSyncAttempts, syncAttempts) ==
  [hasAnswers |-> hasAnswers, answers |-> answers, status |-> status,
   hasSyncAttempts |-> hasSyncAttempts, syncAttempts |-> syncAttempts]

\* updateResponse: the store it leaves.  Answers are validated against
\* their questions where the form has them; the status and the syncStatus
\* fields of the request are copied as they are; the save refuses a status
\* outside the schema's enum.
updateResponse(rs, fs, responseId, updates) ==
  IF responseId \notin 1..Len(rs) THEN rs
  ELSE IF ~fs[rs[responseId].formId].isActive THEN rs
  ELSE IF /\ updates.hasAnswers
          /\ \E a \in 1..Len(updates.answers) :
               /\ getQuestion(fs[rs[responseId].formId], updates.answers[a].questionKey) # 0
               /\ ~validateAnswer(fs[rs[responseId].formId],
                                  updates.answers[a].questionKey, updates.answers[a].value)
    THEN rs
  ELSE IF updates.status # "" /\ updates.status \notin Statuses THEN rs
  ELSE [rs EXCEPT ![responseId] =
          [@ EXCEPT !.answers = IF updates.hasAnswers THEN updates.answers ELSE @,
                    !.status = IF updates.status # "" THEN updates.status ELSE @,
                    !.lastSyncedAt = IF updates.hasSyncAttempts
                                       THEN "updateResponse" ELSE @,
                    !.syncAttempts = IF updates.hasSyncAttempts
                                       THEN updates.syncAttempts ELSE @]]

\* One request PUT /responses/:responseId.
UpdateResponseCall(responseId, updates) ==
  /\ responses' = updateResponse(responses, forms, responseId, updates)
  /\ UNCHANGED <<forms, ext, retry, resync, res, webhookSecret, event>>

\* The updates of the model: a status alone (one of them outside the enum),
\* a reset of the attempt counter, answers alone (accepted, refused, and
\* one for a key that is no question of the form).
UpdateRequests ==
  { Updates(FALSE, <<>>, status, FALSE, 0) : status \in {"synced", "deleted", "archived"} }
  \cup { Updates(FALSE, <<>>, "", TRUE, 0),
         Updates(TRUE, <<Answer("name", Str("A")), Answer("discount", Str("5"))>>, "", FALSE, 0),
         Updates(TRUE, <<Answer("plan", Str("A"))>>, "", FALSE, 0),
         Updates(TRUE, <<Answer("other", Str("A"))>>, "", FALSE, 0) }

NextOutbound ==
  \/ \E createOk \in BOOLEAN : SubmitOutbound(createOk) /\ Len(ext') <= MaxExt
  \/ \E responseId \in 1..MaxResponses, env \in PushEnvs :
       SyncResponseCall(responseId, env) /\ Len(ext') <= MaxExt
  \/ \E responseId \in 1..MaxResponses, updates \in UpdateRequests :
       UpdateResponseCall(responseId, updates)

SpecOutbound == InitRetry /\ [][NextOutbound]_vars

\* C4: invariant I2: no two Responses carry the same record id; a Response
\* carries a local placeholder only if its submission's external create
\* failed and no push of it has succeeded since; no Response with status
\* synced carries a placeholder.
C4_PlaceholderNeverSynced ==
  /\ \A i \in 1..Len(responses), j \in 1..Len(responses) :
       i # j => responses[i].airtableRecordId # responses[j].airtableRecordId
  /\ \A i \in 1..Len(responses) :
       IsPlaceholder(responses[i].airtableRecordId) =>
         /\ responses[i].airtableRecordId = -i
         /\ responses[i].status # "synced"

\* C18: invariant I1 on every write path: every answer a Response stores
\* has the questionKey of a question of the Response's form (the forms of
\* this specification never change, so the form is as it was at the write).
C18_StoredAnswersResolve ==
  \A i \in 1..Len(responses) :
    \A a \in 1..Len(responses[i].answers) :
      getQuestion(forms[responses[i].formId], responses[i].answers[a].questionKey) # 0

====
